---- MODULE Spec2Model ----
(***************************************************************************)
(* A model of the two JSON-RPC clients of neyho/eywa-clients (python):     *)
(*   - the asyncio client          src/py/src/eywa/eywa.py                 *)
(*   - the thread-based client     src/py/src/rpc.py (EYWA, Line)          *)
(* A run exercises one component, named by the variable client; the other  *)
(* components' variables keep their initial values during that run.        *)
(***************************************************************************)
EXTENDS Integers, Sequences, FiniteSets, TLC

(***************************************************************************)
(* Bounds of the model.                                                    *)
(***************************************************************************)
\* outbound invocations made by the program (async coroutines / sender threads)
MaxCalls == 2
\* inbound lines the peer produces during one run (asyncio client, and the
\* stdin of the Line thread)
MaxInbound == 2
\* inbound lines handed to EYWA._handle during one run
MaxHandled == 1
\* characters of a method name or a string id given to generate_request
MaxLen == 2
\* calls of open_pipe() during one run of a program
MaxPipes == 2
\* chunks an input stream given to _http_put_stream yields
MaxChunks == 2

Calls == 1 .. MaxCalls

(***************************************************************************)
(* JSON values.  A decoded JSON object is a record whose DOMAIN is the set *)
(* of its members; a scalar or an empty container is Lit(<its text>), a    *)
(* string value is Str(s).  Python's None is what JSON null decodes to.    *)
(***************************************************************************)
Lit(text) == [lit |-> text]
Str(s) == [str |-> s]
None == Lit("null")

\* Python truthiness of a decoded JSON value (bool(x)).
Truthy(v) == v \notin {None, Lit("false"), Lit("0"), Lit("[]"), Lit("{}"), Str("")}

\* dict.get(key): the member, or None when the object has no such member.
Get(obj, key) == IF key \in DOMAIN obj THEN obj[key] ELSE None

\* a function with one more / one fewer key (dict[key] = val, del dict[key])
Put(f, key, val) == [k \in DOMAIN f \cup {key} |-> IF k = key THEN val ELSE f[k]]
Del(f, key) == [k \in DOMAIN f \ {key} |-> f[k]]
EmptyMap == [k \in {} |-> None]

VARIABLES
    client,          \* which component this run exercises
    \* ---- asyncio client (src/py/src/eywa/eywa.py)
    rpc_callbacks,   \* id -> the coroutine whose Future is registered
    handlers,        \* registered request handlers (method names)
    sys_stdout,      \* lines written to standard output, in order
    sys_stdin,       \* lines written by the peer and not yet read
    a_future,        \* per coroutine: its Future
    a_pc,            \* per coroutine: position in its invocation
    a_op,            \* per coroutine: the invocation it made
    a_id,            \* per coroutine: the id nanoid() gave it
    a_ret,           \* per coroutine: the value send_request returned
    a_reader,        \* the read_stdin task
    a_nin,           \* lines the peer has produced so far
    \* ---- thread-based client (src/py/src/rpc.py, class EYWA)
    _i,              \* EYWA._i, the id counter
    _callbacks,      \* EYWA._callbacks: id -> the sender whose callback it is
    _handlers,       \* EYWA._handlers: method -> handler
    _results,        \* EYWA._results: id -> EMPTY_RESULT, a result or an error
    stdout,          \* lines written by EYWA._write, in order
    t_pc,            \* per sender thread: position in EYWA.send
    t_call,          \* per sender thread: the arguments of its send
    t_id,            \* per sender thread: the local variable id
    t_reg,           \* per sender thread: the value of _i it loaded for += 1
    t_out,           \* per sender thread: how its send ended
    t_cb,            \* per sender thread: the calls made to its callback
    h_pc,            \* the thread running EYWA._handle: position
    h_id,            \* ... the id of the response it is handling
    h_val,           \* ... the result or error it is about to store
    h_exc,           \* the exception that left the last EYWA._handle call
    t_nin,           \* lines handed to EYWA._handle so far
    t_ack,           \* per sender thread (history): a result or error was
                     \* stored under its id after its request was written
    \* ---- the reader thread of the thread-based client (class Line)
    l_pc,            \* position of the Line thread
    _stop,           \* Line._stop, the stop event
    stdin,           \* complete lines available on EYWA.stdin
    stdin_closed,    \* EYWA.stdin.closed
    \* ---- file transfers (src/py/src/eywa_files.py)
    f_op,            \* the function called: upload, ..., download_stream
    f_pc,            \* position of the call (which await it is at)
    f_log,           \* the requests the call has issued, in order
    f_res,           \* the answers it got, f_res[k] for the request f_log[k]
    f_out,           \* how the call ended
    \* ---- module-level functions of src/py/src/rpc.py called on their own
    p_op,            \* the function called
    p_in,            \* its arguments
    p_out,           \* what it returned
    \* ---- the life of the process (open_pipe / exit / close_task of
    \* src/py/src/eywa/eywa.py, Task.close of src/py/eywa.py, EYWA.__del__)
    reader_tasks,    \* the tasks asyncio.create_task(read_stdin()) made
    __stdin__task__, \* the global of that name: an index of reader_tasks
    exit_status,     \* the argument of sys.exit once it was called
    closed,          \* (history) the call that ended the process
    rpc_out,         \* lines written by rpc.call of src/py/eywa.py
    deleted,         \* EYWA.__del__ has run
    invoked,         \* (history) how many times send_request and
                     \* send_notification were invoked, in all
    scheduled,       \* invocations of send_request wrapped in a task that
                     \* the event loop has not started yet, oldest first
    wrote,           \* (history) for each line of sys_stdout, the number of
                     \* the invocation that wrote it
    \* ---- EYWA.stdout as a byte stream (EYWA._write called by two threads)
    w_pc,            \* per thread: position in EYWA._write
    w_n,             \* per thread: messages it has written
    w_buffer,        \* bytes EYWA.stdout holds and has not flushed
    w_fd,            \* bytes that have reached the file descriptor
    \* ---- one call of _http_put_stream (src/py/src/eywa_files.py)
    s_pc,            \* position of the call
    s_args,          \* its arguments
    s_stream,        \* chunks input_stream has not yielded yet
    s_chunks,        \* the local variable chunks
    s_bytes_read,    \* the local variable bytes_read
    s_put,           \* the PUT request it issued
    s_ret            \* its return value

avars == <<rpc_callbacks, handlers, sys_stdout, sys_stdin, a_future, a_pc,
           a_op, a_id, a_ret, a_reader, a_nin>>

tvars == <<_i, _callbacks, _handlers, _results, stdout, t_pc, t_call, t_id,
           t_reg, t_out, t_cb, h_pc, h_id, h_val, h_exc, t_nin, t_ack>>

lvars == <<l_pc, _stop, stdin, stdin_closed>>

fvars == <<f_op, f_pc, f_log, f_res, f_out>>

pvars == <<p_op, p_in, p_out>>

xvars == <<reader_tasks, __stdin__task__, exit_status, closed, rpc_out, deleted,
           invoked, scheduled, wrote>>

wvars == <<w_pc, w_n, w_buffer, w_fd>>

svars == <<s_pc, s_args, s_stream, s_chunks, s_bytes_read, s_put, s_ret>>

vars == <<client, avars, tvars, lvars, fvars, pvars, xvars, wvars, svars>>

\* what the actions of one component leave alone
nonAsync == <<tvars, lvars, fvars, pvars, xvars, wvars, svars>>
nonThread == <<avars, lvars, fvars, pvars, xvars, wvars, svars>>
nonLine == <<avars, tvars, fvars, pvars, xvars, wvars, svars>>
nonFiles == <<avars, tvars, lvars, pvars, xvars, wvars, svars>>
nonFunctions == <<avars, tvars, lvars, fvars, xvars, wvars, svars>>
nonProcess == <<tvars, lvars, fvars, pvars, wvars, svars>>
nonWrite == <<avars, tvars, lvars, fvars, pvars, xvars, svars>>
nonStream == <<avars, tvars, lvars, fvars, pvars, xvars, wvars>>

(***************************************************************************)
(* The asyncio client: src/py/src/eywa/eywa.py                             *)
(***************************************************************************)
\* nanoid() returns a fresh random token.  Ids are opaque (the code only
\* compares them for equality and uses them as dict keys), so the model names
\* the k-th token drawn IdNames[k]; UnknownId is a token nanoid() never gave.
IdNames == <<"a1", "b2", "c3", "d4", "e5", "f6">>
NanoIds == {IdNames[i] : i \in Calls}
UnknownId == "zz"
NoId == ""

\* Future states
NoFuture == [state |-> "none"]
PendingFuture == [state |-> "pending"]
DoneFuture(data) == [state |-> "done", result |-> data]


\* what print(...) puts on standard output: a text line that is not JSON
Printed(text) == [print |-> text]

\* ids nanoid() has already handed out in this run
a_issued == {a_id[c] : c \in Calls} \ {NoId}
nanoid == IdNames[Cardinality(a_issued) + 1]

\* json.loads of a line: lines are either undecodable text ([raw |-> ...])
\* or the text of a JSON value ([json |-> value])
json_ok(line) == "json" \in DOMAIN line
json_loads(line) == line.json

\* a decoded value that is a JSON object (a dict, so that .get exists)
IsObject(v) == "lit" \notin DOMAIN v /\ "str" \notin DOMAIN v

\* a variant of handle_response that answers the calls in the order in which
\* they were sent: it resolves the oldest pending Future, whatever data's id
handle_response_in_order(data) ==
    IF \E c \in Calls : a_future[c].state = "pending"
    THEN LET c == CHOOSE c \in Calls :
                      /\ a_future[c].state = "pending"
                      /\ \A d \in Calls : a_future[d].state = "pending" => c <= d
         IN  /\ a_future' = [a_future EXCEPT ![c] = DoneFuture(data)]
             /\ a_pc' = [a_pc EXCEPT ![c] = "woken"]
             /\ a_reader' = a_reader
             /\ sys_stdout' = sys_stdout
    ELSE /\ sys_stdout' = Append(sys_stdout, Printed("RPC callback not registered"))
         /\ UNCHANGED <<a_future, a_pc, a_reader>>

\* handle_response(data): resolve the Future registered under data's id
handle_response(data) ==
    LET id_ == IF "id" \in DOMAIN data THEN data.id ELSE NoId IN
    IF id_ \in DOMAIN rpc_callbacks
    THEN LET c == rpc_callbacks[id_] IN
         IF a_future[c].state = "pending"
         THEN /\ a_future' = [a_future EXCEPT ![c] = DoneFuture(data)]
              /\ a_pc' = [a_pc EXCEPT ![c] = "woken"]
              /\ a_reader' = a_reader
              /\ sys_stdout' = sys_stdout
         ELSE \* Future.set_result on a done Future: InvalidStateError
              /\ a_reader' = "failed"
              /\ UNCHANGED <<a_future, a_pc, sys_stdout>>
    ELSE /\ sys_stdout' = Append(sys_stdout, Printed("RPC callback not registered"))
         /\ UNCHANGED <<a_future, a_pc, a_reader>>

\* handle_request(data): call the registered handler, if any
handle_request(data) ==
    IF data.method \in handlers
    THEN \* handler(data): the handler's return value is not used
         UNCHANGED <<a_future, a_pc, a_reader, sys_stdout>>
    ELSE /\ sys_stdout' = Append(sys_stdout, Printed("Method doesn't have registered handler"))
         /\ UNCHANGED <<a_future, a_pc, a_reader>>

\* handle_data(data): classify by the truthiness of method, result, error, id
handle_data(data) ==
    LET method == Get(data, "method")
        id_ok == "id" \in DOMAIN data /\ data.id # NoId
        result == Get(data, "result")
        error == Get(data, "error")
    IN  IF "method" \in DOMAIN data /\ data.method # ""
        THEN handle_request(data)
        ELSE IF Truthy(result) /\ id_ok
        THEN handle_response(data)
        ELSE IF Truthy(error) /\ id_ok
        THEN handle_response(data)
        ELSE /\ sys_stdout' = Append(sys_stdout, Printed("Received invalid JSON-RPC"))
             /\ UNCHANGED <<a_future, a_pc, a_reader>>

\* send_request(data): draw an id, register a Future, write the line, await
send_request(c, data) ==
    /\ client = "async"
    /\ a_pc[c] = "ready"
    /\ LET id_ == nanoid
           req == Put(Put(data, "jsonrpc", "2.0"), "id", id_)
       IN
         /\ a_id' = [a_id EXCEPT ![c] = id_]
         /\ a_future' = [a_future EXCEPT ![c] = PendingFuture]
         /\ rpc_callbacks' = Put(rpc_callbacks, id_, c)
         /\ sys_stdout' = Append(sys_stdout, req)
    /\ a_pc' = [a_pc EXCEPT ![c] = "awaiting"]
    /\ UNCHANGED <<client, handlers, sys_stdin, a_ret, a_reader, a_nin>>
    /\ UNCHANGED nonAsync

\* a variant of the rest of send_request that leaves the entry in
\* rpc_callbacks
send_request_resume_keeps_entry(c) ==
    /\ client = "async"
    /\ a_pc[c] = "woken"
    /\ a_ret' = [a_ret EXCEPT ![c] = a_future[c].result]
    /\ a_pc' = [a_pc EXCEPT ![c] = "returned"]
    /\ UNCHANGED <<client, rpc_callbacks, handlers, sys_stdout, sys_stdin, a_future,
                   a_op, a_id, a_reader, a_nin>>
    /\ UNCHANGED nonAsync

\* the rest of send_request, run when the awaited Future is done
send_request_resume(c) ==
    /\ client = "async"
    /\ a_pc[c] = "woken"
    /\ rpc_callbacks' = Del(rpc_callbacks, a_id[c])
    /\ a_ret' = [a_ret EXCEPT ![c] = a_future[c].result]
    /\ a_pc' = [a_pc EXCEPT ![c] = "returned"]
    /\ UNCHANGED <<client, handlers, sys_stdout, sys_stdin, a_future, a_op,
                   a_id, a_reader, a_nin>>
    /\ UNCHANGED nonAsync

\* a variant of send_notification that registers the notification like a
\* request
send_notification_registered(c, data) ==
    /\ client = "async"
    /\ a_pc[c] = "ready"
    /\ sys_stdout' = Append(sys_stdout, Put(data, "jsonrpc", "2.0"))
    /\ rpc_callbacks' = Put(rpc_callbacks, nanoid, c)
    /\ a_pc' = [a_pc EXCEPT ![c] = "returned"]
    /\ a_op' = [a_op EXCEPT ![c] = "send_notification"]
    /\ UNCHANGED <<client, handlers, sys_stdin, a_future, a_id,
                   a_ret, a_reader, a_nin>>
    /\ UNCHANGED nonAsync

\* send_notification(data): write the line, no id, no Future
send_notification(c, data) ==
    /\ client = "async"
    /\ a_pc[c] = "ready"
    /\ sys_stdout' = Append(sys_stdout, Put(data, "jsonrpc", "2.0"))
    /\ a_pc' = [a_pc EXCEPT ![c] = "returned"]
    /\ a_op' = [a_op EXCEPT ![c] = "send_notification"]
    /\ UNCHANGED <<client, rpc_callbacks, handlers, sys_stdin, a_future, a_id,
                   a_ret, a_reader, a_nin>>
    /\ UNCHANGED nonAsync

\* graphql(query, variables)
graphql(c, query, variables) ==
    /\ send_request(c, [method |-> "eywa.datasets.graphql",
                        params |-> [query |-> query, variables |-> variables]])
    /\ a_op' = [a_op EXCEPT ![c] = "graphql"]

\* update_task(status)
update_task(c, status) ==
    send_notification(c, [method |-> "task.update", params |-> [status |-> Str(status)]])

\* register_handler(method, func)
register_handler(method) ==
    /\ client = "async"
    /\ method \notin handlers
    /\ handlers' = handlers \cup {method}
    /\ UNCHANGED <<client, rpc_callbacks, sys_stdout, sys_stdin, a_future, a_pc,
                   a_op, a_id, a_ret, a_reader, a_nin>>
    /\ UNCHANGED nonAsync

\* open_pipe(): create the read_stdin task
open_pipe ==
    /\ client = "async"
    /\ a_reader = "off"
    /\ a_reader' = "running"
    /\ UNCHANGED <<client, rpc_callbacks, handlers, sys_stdout, sys_stdin,
                   a_future, a_pc, a_op, a_id, a_ret, a_nin>>
    /\ UNCHANGED nonAsync

\* one turn of read_stdin's loop with a line available: readline, json.loads,
\* handle_data, then sleep(0.5).  The sleep lets every coroutine woken by
\* set_result run before the next line is taken (asyncio runs ready callbacks
\* first-in first-out, the timer comes later).  Only asyncio.TimeoutError is
\* caught: any other exception ends the task.
read_stdin ==
    /\ client = "async"
    /\ a_reader = "running"
    /\ sys_stdin # <<>>
    /\ \A c \in Calls : a_pc[c] # "woken"
    /\ sys_stdin' = Tail(sys_stdin)
    /\ LET raw == Head(sys_stdin) IN
       IF ~json_ok(raw)
       THEN /\ a_reader' = "failed"
            /\ UNCHANGED <<a_future, a_pc, sys_stdout>>
       ELSE IF ~IsObject(json_loads(raw))
       THEN \* data.get on a value that is not a dict: AttributeError
            /\ a_reader' = "failed"
            /\ UNCHANGED <<a_future, a_pc, sys_stdout>>
       ELSE handle_data(json_loads(raw))
    /\ UNCHANGED <<client, rpc_callbacks, handlers, a_op, a_id, a_ret, a_nin>>
    /\ UNCHANGED nonAsync

\* one turn of read_stdin's loop with no line: wait_for times out after 2 s,
\* the TimeoutError is caught and the loop goes on
read_stdin_timeout ==
    /\ client = "async"
    /\ a_reader = "running"
    /\ sys_stdin = <<>>
    /\ UNCHANGED vars

(***************************************************************************)
(* The peer of the asyncio client: it may write any line.  The reader      *)
(* takes lines strictly one after the other and the program cannot see the *)
(* pipe, so the peer is modelled as writing its next line once the         *)
(* previous one has been taken.                                            *)
(***************************************************************************)
ResultValues == {Lit("0"), [data |-> Lit("1")]}
ErrorValues == {[code |-> -32601, message |-> "Method not found"]}
Methods == {"ping", "nope"}
BadLine == [raw |-> "{oops"]

AsyncInbound ==
    {BadLine, [json |-> Lit("0")], [json |-> [jsonrpc |-> "2.0"]]}
    \cup {[json |-> [jsonrpc |-> "2.0", id |-> i, result |-> [data |-> Lit("1")]]] :
              i \in NanoIds}
    \cup {[json |-> [jsonrpc |-> "2.0", id |-> IdNames[1], result |-> v]] :
              v \in ResultValues}
    \cup {[json |-> [jsonrpc |-> "2.0", id |-> i, error |-> e]] :
              i \in {IdNames[1], UnknownId}, e \in ErrorValues}
    \cup {[json |-> [jsonrpc |-> "2.0", id |-> UnknownId, result |-> [data |-> Lit("1")]]]}
    \cup {[json |-> [jsonrpc |-> "2.0", method |-> m, id |-> "r1"]] : m \in Methods}

peer_write(line) ==
    /\ client = "async"
    /\ a_nin < MaxInbound
    /\ sys_stdin = <<>>
    /\ sys_stdin' = Append(sys_stdin, line)
    /\ a_nin' = a_nin + 1
    /\ UNCHANGED <<client, rpc_callbacks, handlers, sys_stdout, a_future, a_pc,
                   a_op, a_id, a_ret, a_reader>>
    /\ UNCHANGED nonAsync

AsyncInit ==
    /\ rpc_callbacks = EmptyMap
    /\ handlers = {}
    /\ sys_stdout = <<>>
    /\ sys_stdin = <<>>
    /\ a_future = [c \in Calls |-> NoFuture]
    /\ a_pc = [c \in Calls |-> "ready"]
    /\ a_op = [c \in Calls |-> "none"]
    /\ a_id = [c \in Calls |-> NoId]
    /\ a_ret = [c \in Calls |-> None]
    /\ a_reader = "off"
    /\ a_nin = 0

AsyncNext ==
    \/ open_pipe
    \/ \E m \in {"ping"} : register_handler(m)
    \/ \E c \in Calls : graphql(c, Str("{q}"), None)
    \/ \E c \in Calls : update_task(c, "PROCESSING")
    \/ \E c \in Calls : send_request_resume(c)
    \/ read_stdin
    \/ read_stdin_timeout
    \/ \E line \in AsyncInbound : peer_write(line)


(***************************************************************************)
(* The thread-based client: src/py/src/rpc.py                              *)
(***************************************************************************)
Num(n) == [int |-> n]
Range(lo, hi) == [lower |-> lo, upper |-> hi]

\* the classes registered with @register_error: code is an integer, or for
\* RPCServerError the tuple (-32099, -32000)
RPCParseError == [name |-> "RPCParseError", code |-> Num(-32700), title |-> "Parse error"]
RPCInvalidRequest == [name |-> "RPCInvalidRequest", code |-> Num(-32600), title |-> "Invalid Request"]
RPCMethodNotFound == [name |-> "RPCMethodNotFound", code |-> Num(-32601), title |-> "Method not found"]
RPCInvalidParams == [name |-> "RPCInvalidParams", code |-> Num(-32602), title |-> "Invalid params"]
RPCInternalError == [name |-> "RPCInternalError", code |-> Num(-32603), title |-> "Internal error"]
RPCServerError == [name |-> "RPCServerError", code |-> Range(-32099, -32000), title |-> "Server error"]

RegisteredErrors == {RPCParseError, RPCInvalidRequest, RPCMethodNotFound,
                     RPCInvalidParams, RPCInternalError, RPCServerError}

\* is_range(code)
is_range(code) == "lower" \in DOMAIN code /\ code.lower < code.upper

\* register_error fills one of the two maps, by the type of cls.code
error_map_distinct == {cls \in RegisteredErrors : "int" \in DOMAIN cls.code}
error_map_range == {cls \in RegisteredErrors : is_range(cls.code)}

NoClass == [name |-> "None"]

\* a variant of get_error that takes the bounds of a range as excluded
get_error_exclusive(code) ==
    IF \E cls \in error_map_distinct : cls.code.int = code
    THEN CHOOSE cls \in error_map_distinct : cls.code.int = code
    ELSE IF \E cls \in error_map_range : cls.code.lower < code /\ code < cls.code.upper
    THEN CHOOSE cls \in error_map_range : cls.code.lower < code /\ code < cls.code.upper
    ELSE NoClass

\* get_error(code), code an integer: the class registered for it, or None
get_error(code) ==
    IF \E cls \in error_map_distinct : cls.code.int = code
    THEN CHOOSE cls \in error_map_distinct : cls.code.int = code
    ELSE IF \E cls \in error_map_range : cls.code.lower <= code /\ code <= cls.code.upper
    THEN CHOOSE cls \in error_map_range : cls.code.lower <= code /\ code <= cls.code.upper
    ELSE NoClass

\* RPCError.__init__ on a subclass: the instance reads code and title from
\* its class and keeps data
RPCError(cls, data) ==
    [exc |-> cls.name, code |-> cls.code, title |-> cls.title, data |-> data]

\* an exception that is not an RPCError, str(e) = text
OtherError(name, text) == [exc |-> name, text |-> text]
IsException(v) == "exc" \in DOMAIN v
IsRPCError(v) == IsException(v) /\ "code" \in DOMAIN v

\* the outcome of a function that may raise
Ok(v) == [ok |-> v]
Raise(e) == [raise |-> e]
Raised(r) == "raise" \in DOMAIN r

\* check_id(id, allow_empty): does it pass (no TypeError)?
check_id(id, allow_empty) ==
    ~((id # None \/ ~allow_empty) /\ ~("int" \in DOMAIN id \/ "str" \in DOMAIN id))

\* check_code(code): does it pass (no TypeError, no ValueError)?
check_code(code) ==
    /\ "int" \in DOMAIN code
    /\ get_error(code.int) # NoClass

\* generate_request(method, id, params): the line, as the JSON object it spells
generate_request(method, id, params) ==
    IF ~check_id(id, TRUE)
    THEN Raise(RPCError(RPCInvalidRequest, Str("id must be an integer or string")))
    ELSE LET r0 == [jsonrpc |-> "2.0", method |-> method]
             r1 == IF id # None THEN Put(r0, "id", id.int) ELSE r0
             r2 == IF params # None THEN Put(r1, "params", params) ELSE r1
         IN  Ok(r2)

\* generate_response(id, result)
generate_response(id, result) ==
    IF ~check_id(id, FALSE)
    THEN Raise(RPCError(RPCInvalidRequest, Str("id must be an integer or string")))
    ELSE Ok([jsonrpc |-> "2.0", id |-> id.int, result |-> result])

\* generate_error(id, code, data)
generate_error(id, code, data) ==
    IF ~check_id(id, FALSE)
    THEN Raise(RPCError(RPCInvalidRequest, Str("id must be an integer or string")))
    ELSE IF ~check_code(code)
    THEN Raise(RPCError(RPCInvalidRequest, Str("code must be an integer")))
    ELSE LET message == IF get_error(code.int) # NoClass
                        THEN get_error(code.int).title
                        ELSE "Unknown error code"
             e0 == [code |-> code.int, message |-> message]
             err_data == IF data # None THEN Put(e0, "data", data) ELSE e0
         IN  Ok([jsonrpc |-> "2.0", id |-> id.int, error |-> err_data])

EMPTY_RESULT == [empty |-> TRUE]
NoCall == [callback |-> FALSE, block |-> 0, method |-> ""]
NoOutcome == [kind |-> "none"]
Returned(v) == [kind |-> "return", value |-> v]
Raises(e) == [kind |-> "raise", error |-> e]

is_notification(call) == ~call.callback /\ call.block <= 0

\* the runs in which the program calls EYWA.send: several caller threads
\* ("thread"), or one caller thread and a peer that repeats its answers
\* ("repeat")
ThreadClients == {"thread", "repeat"}

\* EYWA.send, first part: is_notification, id = None, and for a request the
\* load of self._i that begins "self._i += 1"
send_begin(t, method, callback, block) ==
    /\ client \in ThreadClients
    /\ t_pc[t] = "start"
    \* with client = "repeat" the program has one caller thread
    /\ client = "repeat" => t = 1
    \* sender threads are interchangeable: they are numbered in the order in
    \* which they enter send
    /\ \A u \in Calls : u < t => t_pc[u] # "start"
    /\ LET call == [callback |-> callback, block |-> block, method |-> method] IN
       /\ t_call' = [t_call EXCEPT ![t] = call]
       /\ IF is_notification(call)
          THEN /\ t_pc' = [t_pc EXCEPT ![t] = "write"]
               /\ t_reg' = t_reg
          ELSE /\ t_pc' = [t_pc EXCEPT ![t] = "store"]
               /\ t_reg' = [t_reg EXCEPT ![t] = _i]
    /\ UNCHANGED <<client, _i, _callbacks, _handlers, _results, stdout, t_id,
                   t_out, t_cb, h_pc, h_id, h_val, h_exc, t_nin, t_ack>>
    /\ UNCHANGED nonThread

\* the store that ends "self._i += 1"
send_store(t) ==
    /\ client \in ThreadClients
    /\ t_pc[t] = "store"
    /\ _i' = t_reg[t] + 1
    /\ t_reg' = [t_reg EXCEPT ![t] = 0]
    /\ t_pc' = [t_pc EXCEPT ![t] = "getid"]
    /\ UNCHANGED <<client, _callbacks, _handlers, _results, stdout, t_call, t_id,
                   t_out, t_cb, h_pc, h_id, h_val, h_exc, t_nin, t_ack>>
    /\ UNCHANGED nonThread

\* "id = self._i" and the registration of the callback
send_getid(t) ==
    /\ client \in ThreadClients
    /\ t_pc[t] = "getid"
    /\ t_id' = [t_id EXCEPT ![t] = Num(_i)]
    /\ _callbacks' = IF t_call[t].callback THEN Put(_callbacks, _i, t) ELSE _callbacks
    /\ t_pc' = [t_pc EXCEPT ![t] = IF t_call[t].block > 0 THEN "regres" ELSE "write"]
    /\ UNCHANGED <<client, _i, _handlers, _results, stdout, t_call, t_reg, t_out,
                   t_cb, h_pc, h_id, h_val, h_exc, t_nin, t_ack>>
    /\ UNCHANGED nonThread

\* "self._results[id] = self.EMPTY_RESULT"
send_regres(t) ==
    /\ client \in ThreadClients
    /\ t_pc[t] = "regres"
    /\ _results' = Put(_results, t_id[t].int, EMPTY_RESULT)
    /\ t_pc' = [t_pc EXCEPT ![t] = "write"]
    /\ UNCHANGED <<client, _i, _callbacks, _handlers, stdout, t_call, t_id, t_reg,
                   t_out, t_cb, h_pc, h_id, h_val, h_exc, t_nin, t_ack>>
    /\ UNCHANGED nonThread

\* EYWA._write(s): one write of the whole line, then flush
_write(s) == stdout' = Append(stdout, s)

\* "req = generate_request(...); self._write(req)"; a send that does not
\* block returns here.  args defaults to (), which json.dumps spells [].
send_write(t) ==
    /\ client \in ThreadClients
    /\ t_pc[t] = "write"
    /\ LET req == generate_request(t_call[t].method, t_id[t], Lit("[]")) IN
       IF Raised(req)
       THEN /\ t_out' = [t_out EXCEPT ![t] = Raises(req.raise)]
            /\ t_pc' = [t_pc EXCEPT ![t] = "done"]
            /\ stdout' = stdout
       ELSE /\ _write(req.ok)
            /\ IF t_call[t].block > 0
               THEN /\ t_pc' = [t_pc EXCEPT ![t] = "poll"]
                    /\ t_out' = t_out
               ELSE /\ t_pc' = [t_pc EXCEPT ![t] = "done"]
                    /\ t_out' = [t_out EXCEPT ![t] = Returned(None)]
    /\ UNCHANGED <<client, _i, _callbacks, _handlers, _results, t_call, t_id,
                   t_reg, t_cb, h_pc, h_id, h_val, h_exc, t_nin, t_ack>>
    /\ UNCHANGED nonThread

\* one turn of the polling loop: "if self._results[id] != self.EMPTY_RESULT:
\* result = self._results[id]; del self._results[id]" and the raise or the
\* return, else time.sleep(block).  (A store into _results[id] between the
\* test and the read gives what the same store before the test gives.)
send_poll(t) ==
    /\ client \in ThreadClients
    /\ t_pc[t] = "poll"
    /\ IF t_id[t].int \notin DOMAIN _results
       THEN /\ t_out' = [t_out EXCEPT ![t] = Raises(OtherError("KeyError", "id"))]
            /\ t_pc' = [t_pc EXCEPT ![t] = "done"]
            /\ _results' = _results
       ELSE IF _results[t_id[t].int] # EMPTY_RESULT
       THEN LET result == _results[t_id[t].int] IN
            /\ _results' = Del(_results, t_id[t].int)
            /\ t_out' = [t_out EXCEPT ![t] =
                            IF IsException(result) THEN Raises(result)
                            ELSE Returned(result)]
            /\ t_pc' = [t_pc EXCEPT ![t] = "done"]
       ELSE UNCHANGED <<t_pc, t_out, _results>>
    /\ UNCHANGED <<client, _i, _callbacks, _handlers, stdout, t_call, t_id, t_reg,
                   t_cb, h_pc, h_id, h_val, h_exc, t_nin, t_ack>>
    /\ UNCHANGED nonThread

\* the end of _handle_response and _handle_error: look the callback up,
\* delete it, call it with (error, result)
invoke_callback(id, error, result) ==
    IF id \in DOMAIN _callbacks
    THEN /\ _callbacks' = Del(_callbacks, id)
         /\ t_cb' = [t_cb EXCEPT ![_callbacks[id]] =
                        Append(@, [error |-> error, result |-> result])]
    ELSE UNCHANGED <<_callbacks, t_cb>>

\* an exception leaves EYWA._handle.  Its caller, Line.run, has no try: the
\* exception ends the thread that handles lines.
handle_raises(name) ==
    /\ h_exc' = name
    /\ h_pc' = "failed"
    /\ UNCHANGED <<_callbacks, _results, stdout, t_cb, h_id, h_val>>

\* the value is found for a response or error: either "res['id'] in
\* self._results" holds and the store is the next step, or the callback part
\* runs right away
handle_found(id, val) ==
    /\ h_exc' = h_exc
    /\ IF id \in DOMAIN _results
       THEN /\ h_pc' = "store"
            /\ h_id' = id
            /\ h_val' = val
            /\ UNCHANGED <<_callbacks, _results, stdout, t_cb>>
       ELSE /\ IF IsException(val) THEN invoke_callback(id, val, None)
                                   ELSE invoke_callback(id, None, val)
            /\ UNCHANGED <<_results, stdout, h_pc, h_id, h_val>>

\* EYWA._handle_response(res), up to the test "res['id'] in self._results"
_handle_response(res) ==
    IF \/ "id" \notin DOMAIN res
       \/ /\ "result" \notin DOMAIN res
          /\ (res.id \in DOMAIN _results \/ res.id \in DOMAIN _callbacks)
    THEN handle_raises("KeyError")
    ELSE handle_found(res.id, Get(res, "result"))

\* EYWA._handle_error(res), up to the test "res['id'] in self._results"
_handle_error(res) ==
    LET err == res.error IN
    IF "code" \notin DOMAIN err \/ "message" \notin DOMAIN err
    THEN handle_raises("KeyError")
    ELSE IF get_error(err.code) = NoClass
    THEN \* None(...) : 'NoneType' object is not callable
         handle_raises("TypeError")
    ELSE IF "id" \notin DOMAIN res
    THEN handle_raises("KeyError")
    ELSE handle_found(res.id,
                      RPCError(get_error(err.code),
                               IF "data" \in DOMAIN err THEN err.data
                               ELSE Str(err.message)))

\* a variant of _route that raises RPCMethodNotFound without the method name
_route_no_data(method) ==
    IF method \in DOMAIN _handlers
    THEN Ok(_handlers[method])
    ELSE Raise(RPCError(RPCMethodNotFound, None))

\* EYWA._route(method)
_route(method) ==
    IF method \in DOMAIN _handlers
    THEN Ok(_handlers[method])
    ELSE Raise(RPCError(RPCMethodNotFound, Str(method)))

\* calling a handler with params: the handlers a program may register either
\* return a value or raise (an RPCError subclass or any other exception)
call_handler(handler, params) ==
    IF handler = "echo" THEN Ok(params)
    ELSE IF handler = "raise_params" THEN Raise(RPCError(RPCInvalidParams, Str("bad")))
    ELSE IF handler = "raise_server" THEN Raise(RPCError(RPCServerError, Str("busy")))
    ELSE IF handler = "raise_value" THEN Raise(OtherError("ValueError", "boom"))
    ELSE Ok(None)

\* the try block of EYWA._handle_request: the line to write (or None when
\* the request has no id), or the exception raised in it
try_request(req) ==
    LET method == _route(req.method) IN
    IF Raised(method) THEN method
    ELSE IF "params" \notin DOMAIN req
    THEN Raise(OtherError("KeyError", "'params'"))
    ELSE LET result == call_handler(method.ok, req.params) IN
         IF Raised(result) THEN result
         ELSE IF "id" \in DOMAIN req
         THEN generate_response(Num(req.id), result.ok)
         ELSE Ok(None)

\* the except block of EYWA._handle_request for exception e
except_request(req, e) ==
    IF "id" \in DOMAIN req
    THEN IF IsRPCError(e)
         THEN generate_error(Num(req.id), e.code, e.data)
         ELSE generate_error(Num(req.id), Num(-32603), Str(e.text))
    ELSE Ok(None)

\* EYWA._handle_request(req)
_handle_request(req) ==
    LET tried == try_request(req)
        out == IF Raised(tried) THEN except_request(req, tried.raise) ELSE tried
    IN  IF Raised(out)
        THEN handle_raises(out.raise.exc)
        ELSE /\ IF out.ok # None THEN _write(out.ok) ELSE stdout' = stdout
             /\ UNCHANGED <<_callbacks, _results, t_cb, h_pc, h_id, h_val, h_exc>>

\* EYWA._handle(line): json.loads and the dispatch on "method" / "error"
_handle(line) ==
    IF ~json_ok(line)
    THEN handle_raises("JSONDecodeError")
    ELSE LET obj == json_loads(line) IN
         IF ~IsObject(obj)
         THEN \* "method" in obj, obj not a container
              handle_raises("TypeError")
         ELSE IF "method" \in DOMAIN obj
         THEN _handle_request(obj)
         ELSE IF "error" \notin DOMAIN obj
         THEN _handle_response(obj)
         ELSE _handle_error(obj)

(***************************************************************************)
(* The lines handed to EYWA._handle.                                       *)
(***************************************************************************)
\* ids of the responses the peer sends: the first two ids EYWA.send gives out
ThreadIds == {0, 1}
ThreadErrors ==
    {[code |-> -32601, message |-> "Method not found", data |-> Str("nope")],
     [code |-> -32050, message |-> "Server error"],
     [code |-> 1, message |-> "custom"]}

ThreadInbound ==
    {BadLine}
    \cup {[json |-> [jsonrpc |-> "2.0", id |-> i, result |-> [data |-> Lit("1")]]] :
              i \in ThreadIds}
    \cup {[json |-> [jsonrpc |-> "2.0", id |-> 0, error |-> e]] :
              e \in {x \in ThreadErrors : x.code = -32601}}

\* A program that only serves requests (client = "serve"): its handlers,
\* some of which raise, and the lines its peer sends
ServeHandlers ==
    [m \in {"ping", "bad", "busy", "boom"} |->
        IF m = "ping" THEN "echo"
        ELSE IF m = "bad" THEN "raise_params"
        ELSE IF m = "busy" THEN "raise_server"
        ELSE "raise_value"]

ServeInbound ==
    {[json |-> [jsonrpc |-> "2.0", method |-> m, id |-> 3, params |-> Lit("[]")]] :
         m \in DOMAIN ServeHandlers \cup {"nope"}}
    \cup {[json |-> [jsonrpc |-> "2.0", method |-> m, params |-> Lit("[]")]] :
              m \in DOMAIN ServeHandlers \cup {"nope"}}
    \* a request for a registered method that has no params member
    \cup {[json |-> [jsonrpc |-> "2.0", method |-> "ping", id |-> 3]]}
    \* objects that are no request, no response and no error
    \cup {[json |-> [jsonrpc |-> "2.0"]], [json |-> [jsonrpc |-> "2.0", id |-> 0]]}

\* A peer that may answer the first call more than once, and with any of the
\* errors (client = "repeat")
RepeatInbound ==
    {[json |-> [jsonrpc |-> "2.0", id |-> 0, result |-> [data |-> Lit("1")]]]}
    \cup {[json |-> [jsonrpc |-> "2.0", id |-> 0, error |-> e]] : e \in ThreadErrors}

\* the lines the reader hands to EYWA._handle in this run
Inbound ==
    IF client = "serve" THEN ServeInbound
    ELSE IF client = "repeat" THEN RepeatInbound
    ELSE ThreadInbound

\* how many lines the reader handles in this run: one more when the peer
\* repeats its answers
HandledLimit == IF client = "repeat" THEN MaxHandled + 1 ELSE MaxHandled

\* One inbound line is handed to EYWA._handle by the thread that handles
\* lines.  (Line.run as written never does so, see Line_loop below: the
\* method is exercised the way a working reader would call it.)
handle_line(line) ==
    /\ client \in {"thread", "serve", "repeat"}
    /\ line \in Inbound
    /\ h_pc = "idle"
    /\ t_nin < HandledLimit
    /\ t_nin' = t_nin + 1
    /\ _handle(line)
    /\ UNCHANGED <<client, _i, _handlers, t_pc, t_call, t_id, t_reg, t_out, t_ack>>
    /\ UNCHANGED nonThread

\* the rest of _handle_response / _handle_error when the id was found in
\* self._results: the store, then the callback part
handle_store ==
    /\ client \in ThreadClients
    /\ h_pc = "store"
    /\ _results' = Put(_results, h_id, h_val)
    /\ IF IsException(h_val) THEN invoke_callback(h_id, h_val, None)
                             ELSE invoke_callback(h_id, None, h_val)
    /\ t_ack' = [t \in Calls |->
                     t_ack[t] \/ (t_pc[t] = "poll" /\ t_id[t] = Num(h_id))]
    /\ h_pc' = "idle"
    /\ h_id' = 0
    /\ h_val' = None
    /\ UNCHANGED <<client, _i, _handlers, stdout, t_pc, t_call, t_id, t_reg,
                   t_out, h_exc, t_nin>>
    /\ UNCHANGED nonThread

\* the ways send is called: a notification, with a callback, or blocking
SendShapes == {[callback |-> FALSE, block |-> 0],
               [callback |-> TRUE, block |-> 0],
               [callback |-> FALSE, block |-> 1]}

ThreadInit ==
    /\ _i = -1
    /\ _callbacks = EmptyMap
    \* __init__ leaves _handlers empty and the class has no method that fills
    \* it: its user assigns the handlers into the dict before the first line
    \* is handled.  Here "ping" has a handler that returns its params.
    /\ _handlers = IF client = "serve" THEN ServeHandlers ELSE [m \in {"ping"} |-> "echo"]
    /\ _results = EmptyMap
    /\ stdout = <<>>
    /\ t_pc = [t \in Calls |-> "start"]
    /\ t_call = [t \in Calls |-> NoCall]
    /\ t_id = [t \in Calls |-> None]
    /\ t_reg = [t \in Calls |-> 0]
    /\ t_out = [t \in Calls |-> NoOutcome]
    /\ t_cb = [t \in Calls |-> <<>>]
    /\ h_pc = "idle"
    /\ h_id = 0
    /\ h_val = None
    /\ h_exc = "none"
    /\ t_nin = 0
    /\ t_ack = [t \in Calls |-> FALSE]

ThreadNext ==
    \/ \E t \in Calls, shape \in SendShapes :
           send_begin(t, "task.get", shape.callback, shape.block)
    \/ \E t \in Calls : send_store(t)
    \/ \E t \in Calls : send_getid(t)
    \/ \E t \in Calls : send_regres(t)
    \/ \E t \in Calls : send_write(t)
    \/ \E t \in Calls : send_poll(t)
    \/ \E line \in ThreadInbound \cup ServeInbound \cup RepeatInbound : handle_line(line)
    \/ handle_store

LineInit ==
    /\ l_pc = "created"
    /\ _stop = FALSE
    /\ stdin = <<>>
    /\ stdin_closed = FALSE

(***************************************************************************)
(* The reader thread of the thread-based client: class Line                *)
(***************************************************************************)
\* Line.run, from its start to the loop: "self._stop.clear()", then return
\* if stdin is closed
Line_run ==
    /\ client = "line"
    /\ l_pc = "created"
    /\ _stop' = FALSE
    /\ l_pc' = IF stdin_closed THEN "exited" ELSE "loop"
    /\ UNCHANGED <<client, stdin, stdin_closed>>
    /\ UNCHANGED nonLine

\* one turn of "while not self._stop.is_set()": line = None; break if stdin
\* is closed; "if line:" hand it to _handle, else wait on the stop event
Line_loop ==
    /\ client = "line"
    /\ l_pc = "loop"
    /\ IF _stop
       THEN l_pc' = "exited" /\ UNCHANGED tvars
       ELSE LET line == None IN
            IF stdin_closed
            THEN l_pc' = "exited" /\ UNCHANGED tvars
            ELSE IF line # None
            THEN /\ _handle(line)
                 /\ t_nin' = t_nin + 1
                 /\ l_pc' = "loop"
                 /\ UNCHANGED <<_i, _handlers, t_pc, t_call, t_id, t_reg, t_out, t_ack>>
            ELSE l_pc' = "wait" /\ UNCHANGED tvars
    /\ UNCHANGED <<client, _stop, stdin, stdin_closed>>
    /\ UNCHANGED <<avars, fvars, pvars, xvars, wvars, svars>>

\* "self._stop.wait(self.interval)" returns: the interval is over or the
\* event was set
Line_wait ==
    /\ client = "line"
    /\ l_pc = "wait"
    /\ l_pc' = "loop"
    /\ UNCHANGED <<client, _stop, stdin, stdin_closed>>
    /\ UNCHANGED nonLine

\* Line.stop()
Line_stop ==
    /\ client = "line"
    /\ ~_stop
    /\ _stop' = TRUE
    /\ UNCHANGED <<client, l_pc, stdin, stdin_closed>>
    /\ UNCHANGED nonLine

\* the peer writes a complete line to the client's stdin.  Line.run has no
\* read call, so stdin holds every line that has arrived, and t_nin counts
\* the lines Line.run has passed to EYWA._handle.
stdin_line(line) ==
    /\ client = "line"
    /\ Len(stdin) < MaxInbound
    /\ stdin' = Append(stdin, line)
    /\ UNCHANGED <<client, l_pc, _stop, stdin_closed>>
    /\ UNCHANGED nonLine

\* the program closes EYWA.stdin
stdin_close ==
    /\ client = "line"
    /\ ~stdin_closed
    /\ stdin_closed' = TRUE
    /\ UNCHANGED <<client, l_pc, _stop, stdin>>
    /\ UNCHANGED nonLine

\* the attributes EYWA.__init__ sets on the object
EYWA_attributes ==
    {"stdin", "stdout", "_i", "_callbacks", "_handlers", "_results", "_connection"}

\* getattr(self, name, None): the Line thread when the attribute holds it
getattr(name) ==
    IF name \in EYWA_attributes /\ name = "_connection" THEN Str("Line")
    ELSE IF name \in EYWA_attributes THEN Str(name)
    ELSE None

\* EYWA.__del__: stop the thread found under the attribute "_line"
EYWA___del__ ==
    /\ client = "line"
    /\ ~deleted
    /\ deleted' = TRUE
    /\ LET connection == getattr("_line") IN
       _stop' = IF Truthy(connection) THEN TRUE ELSE _stop
    /\ UNCHANGED <<client, l_pc, stdin, stdin_closed>>
    /\ UNCHANGED <<avars, tvars, fvars, pvars, wvars, svars>>
    /\ UNCHANGED <<reader_tasks, __stdin__task__, exit_status, closed, rpc_out,
                   invoked, scheduled, wrote>>

LineInbound == {BadLine, [json |-> [jsonrpc |-> "2.0", id |-> 0, result |-> [data |-> Lit("1")]]]}

LineNext ==
    \/ Line_run
    \/ Line_loop
    \/ Line_wait
    \/ Line_stop
    \/ \E line \in LineInbound : stdin_line(line)
    \/ stdin_close
    \/ EYWA___del__

(***************************************************************************)
(* File transfers: src/py/src/eywa_files.py.  One call of upload,          *)
(* upload_stream, upload_content, download or download_stream; what        *)
(* _graphql and the HTTP helpers answer is chosen by the environment.      *)
(***************************************************************************)
FileOps == {"upload", "upload_stream", "upload_content", "download", "download_stream"}
IsUpload(op) == op \in {"upload", "upload_stream", "upload_content"}

\* FileUploadError / FileDownloadError (message, code)
FileError(op, message, code) ==
    [exc |-> IF IsUpload(op) THEN "FileUploadError" ELSE "FileDownloadError",
     message |-> message, code |-> code]

\* the message prefix of each function's "except Exception as e" clause
wrap_message(op) ==
    IF op = "upload" THEN "Upload failed"
    ELSE IF op = "upload_stream" THEN "Stream upload failed"
    ELSE IF op = "upload_content" THEN "Content upload failed"
    ELSE IF op = "download" THEN "Download failed"
    ELSE "Stream download failed"

\* a variant of reraise that lets every exception through as it is
reraise_unwrapped(op, e) == e

\* the except clauses that close each function: the function's own error
\* type is raised again, any other exception is wrapped into it
reraise(op, e) ==
    IF e.exc = FileError(op, "", None).exc THEN e
    ELSE FileError(op, wrap_message(op), None)

\* the GraphQL field the first step asks for
url_field(op) == IF IsUpload(op) THEN "requestUploadURL" ELSE "requestDownloadURL"

\* dict.get(key, default)
GetD(obj, key, default) == IF key \in DOMAIN obj THEN obj[key] ELSE default

\* result.get('data', {}).get(field): the member, None when there is no
\* data member, AttributeError when data is not a dict
data_field(result, field) ==
    LET data == GetD(result, "data", Lit("{}")) IN
    IF data = Lit("{}") THEN Ok(None)
    ELSE IF ~IsObject(data) THEN Raise(OtherError("AttributeError", "get"))
    ELSE Ok(Get(data, field))

\* what follows "result = await _graphql(...)" in step 1: the URL, or the
\* exception raised
url_of(op, answer) ==
    IF Raised(answer) THEN answer
    ELSE LET result == answer.ok IN
         IF ~IsObject(result) THEN Raise(OtherError("AttributeError", "get"))
         ELSE IF Truthy(Get(result, "error"))
         THEN Raise(FileError(op, IF IsUpload(op) THEN "Failed to get upload URL"
                                  ELSE "Failed to get download URL", None))
         ELSE LET url == data_field(result, url_field(op)) IN
              IF Raised(url) THEN url
              ELSE IF ~Truthy(url.ok)
              THEN Raise(FileError(op, IF IsUpload(op) THEN "No upload URL in response"
                                       ELSE "No download URL in response", None))
              ELSE url

\* a variant of http_failed that takes every answer for a success
http_failed_never(op, http_result) == FALSE

\* the test on the answer of the HTTP helper: upload_result['status'] ==
\* 'error' in the uploads, download_result['status'] != 'success' in the
\* downloads
http_failed(op, http_result) ==
    IF IsUpload(op) THEN http_result.status = "error"
    ELSE http_result.status # "success"

\* a variant of confirm_outcome that returns whatever confirmFileUpload says
confirm_outcome_lenient(op, answer) ==
    IF Raised(answer) THEN Raises(reraise(op, answer.raise))
    ELSE Returned(None)

\* what follows "confirm_result = await _graphql(...)" in step 3
confirm_outcome(op, answer) ==
    IF Raised(answer) THEN Raises(reraise(op, answer.raise))
    ELSE LET confirm_result == answer.ok IN
         IF ~IsObject(confirm_result)
         THEN Raises(reraise(op, OtherError("AttributeError", "get")))
         ELSE IF Truthy(Get(confirm_result, "error"))
         THEN Raises(FileError(op, "Upload confirmation failed", None))
         ELSE LET confirmed == data_field(confirm_result, "confirmFileUpload") IN
              IF Raised(confirmed) THEN Raises(reraise(op, confirmed.raise))
              ELSE IF ~Truthy(confirmed.ok)
              THEN Raises(FileError(op, "Upload confirmation returned false", None))
              ELSE Returned(None)

\* what _graphql can give back: it raises, or returns a decoded object
GraphqlFailure == Raise(OtherError("Exception", "Could not call eywa.graphql"))
Envelope(result) == [jsonrpc |-> "2.0", id |-> "a1", result |-> result]

UrlAnswers(op) ==
    {GraphqlFailure, Ok(None), Ok([error |-> Str("denied")]), Ok([data |-> None])}
    \cup {Ok([data |-> [k \in {url_field(op)} |-> u]]) : u \in {Str("u1"), Str("u2"), Str("")}}
    \cup {Ok(Envelope([data |-> [k \in {url_field(op)} |-> Str("u1")]]))}

ConfirmAnswers ==
    {GraphqlFailure, Ok([error |-> Str("denied")]), Ok([data |-> None])}
    \cup {Ok([data |-> [confirmFileUpload |-> v]]) : v \in {Lit("true"), Lit("false")}}
    \cup {Ok(Envelope([data |-> [confirmFileUpload |-> Lit("true")]]))}

\* what _http_put_stream, _http_put_content and _download_to_bytes return
HttpAnswers ==
    {[status |-> "success", code |-> 200],
     [status |-> "error", code |-> 403],
     [status |-> "error", code |-> 0]}

\* a request the call issues
Issued(step, url) == [step |-> step, url |-> url]

\* the call starts: the checks on its arguments, then step 1 is issued
files_begin(op, args_ok) ==
    /\ client = "files"
    /\ f_pc = "start"
    /\ f_op' = op
    /\ IF IsUpload(op) /\ ~args_ok
       THEN /\ f_out' = Raises(reraise(op,
                            FileError(op, IF op = "upload" THEN "File not found"
                                          ELSE "name is required", None)))
            /\ f_pc' = "done"
            /\ f_log' = f_log
       ELSE /\ f_log' = Append(f_log, Issued(url_field(op), None))
            /\ f_pc' = "url"
            /\ f_out' = f_out
    /\ UNCHANGED <<client, f_res>>
    /\ UNCHANGED nonFiles

\* _graphql answers step 1; with a URL the HTTP request is issued
files_url(answer) ==
    /\ client = "files"
    /\ f_pc = "url"
    /\ answer \in UrlAnswers(f_op)
    /\ f_res' = Append(f_res, answer)
    /\ LET url == url_of(f_op, answer) IN
       IF Raised(url)
       THEN /\ f_out' = Raises(reraise(f_op, url.raise))
            /\ f_pc' = "done"
            /\ f_log' = f_log
       ELSE /\ f_log' = Append(f_log, Issued(IF IsUpload(f_op) THEN "PUT" ELSE "GET", url.ok))
            /\ f_pc' = "http"
            /\ f_out' = f_out
    /\ UNCHANGED <<client, f_op>>
    /\ UNCHANGED nonFiles

\* the HTTP helper answers step 2; an upload then issues the confirmation, a
\* download returns the content (writing it to save_path may fail)
files_http(http_result, save_ok) ==
    /\ client = "files"
    /\ f_pc = "http"
    /\ f_res' = Append(f_res, http_result)
    /\ IF http_failed(f_op, http_result)
       THEN /\ f_out' = Raises(reraise(f_op,
                            FileError(f_op, IF IsUpload(f_op) THEN "S3 upload failed"
                                            ELSE "Download failed",
                                      Num(http_result.code))))
            /\ f_pc' = "done"
            /\ f_log' = f_log
       ELSE IF IsUpload(f_op)
       THEN /\ f_log' = Append(f_log, Issued("confirmFileUpload", f_log[Len(f_log)].url))
            /\ f_pc' = "confirm"
            /\ f_out' = f_out
       ELSE /\ f_out' = IF f_op = "download" /\ ~save_ok
                        THEN Raises(reraise(f_op, OtherError("OSError", "open")))
                        ELSE Returned(Lit("content"))
            /\ f_pc' = "done"
            /\ f_log' = f_log
    /\ UNCHANGED <<client, f_op>>
    /\ UNCHANGED nonFiles

\* _graphql answers step 3
files_confirm(answer) ==
    /\ client = "files"
    /\ f_pc = "confirm"
    /\ f_res' = Append(f_res, answer)
    /\ f_out' = confirm_outcome(f_op, answer)
    /\ f_pc' = "done"
    /\ UNCHANGED <<client, f_op, f_log>>
    /\ UNCHANGED nonFiles

FilesInit ==
    /\ f_op = "none"
    /\ f_pc = "start"
    /\ f_log = <<>>
    /\ f_res = <<>>
    /\ f_out = NoOutcome

FilesNext ==
    \/ \E op \in FileOps, args_ok \in BOOLEAN : files_begin(op, args_ok)
    \/ \E answer \in UNION {UrlAnswers(op) : op \in FileOps} : files_url(answer)
    \/ \E http_result \in HttpAnswers, save_ok \in BOOLEAN : files_http(http_result, save_ok)
    \/ \E answer \in ConfirmAnswers : files_confirm(answer)

(***************************************************************************)
(* The module-level functions of src/py/src/rpc.py, called on their own    *)
(* (client = "functions"): one call per run, its arguments in p_in and its *)
(* return value in p_out.                                                  *)
(***************************************************************************)
\* the integers get_error is called with: the registered codes, both bounds
\* of the server-error range with their neighbours, and codes nobody
\* registered
ErrorCodes ==
    {-32700, -32600, -32601, -32602, -32603,
     -32100, -32099, -32098, -32050, -32001, -32000, -31999,
     -32701, -32699, -32604, -32599, -1, 0, 1, 32000, 32700}

\* get_error(code)
call_get_error ==
    /\ client = "functions"
    /\ p_op = "none"
    /\ "code" \in DOMAIN p_in
    /\ p_op' = "get_error"
    /\ p_out' = get_error(p_in.code)
    /\ UNCHANGED <<client, p_in>>
    /\ UNCHANGED nonFunctions

\* Texts.  A Python string is a sequence of characters; the characters that
\* matter to a JSON string literal are the quote and the backslash, "a"
\* stands for any other one.
Chars == {"a", "\"", "\\"}
Strings == UNION {[1 .. n -> Chars] : n \in 0 .. MaxLen}

\* json.dumps(s) for a string s, without the enclosing quotes: quote and
\* backslash are escaped with a backslash
RECURSIVE json_dumps_str(_)
json_dumps_str(s) ==
    IF s = <<>> THEN <<>>
    ELSE (IF Head(s) \in {"\"", "\\"} THEN <<"\\", Head(s)>> ELSE <<Head(s)>>)
         \o json_dumps_str(Tail(s))

\* What json.loads makes of the characters the code put between two quotes,
\* in an object where other members or the closing brace follow.  A bare
\* quote ends the literal early and a backslash before the closing quote
\* swallows it: what follows is then no JSON (for texts as short as these,
\* which cannot spell a whole member); \a is no escape sequence.
RECURSIVE json_loads_str(_)
json_loads_str(t) ==
    IF t = <<>> THEN Ok(<<>>)
    ELSE IF Head(t) = "\"" THEN Raise(OtherError("JSONDecodeError", "Expecting ',' delimiter"))
    ELSE IF Head(t) = "\\"
    THEN IF Len(t) < 2 \/ t[2] \notin {"\"", "\\"}
         THEN Raise(OtherError("JSONDecodeError", "Invalid \\escape"))
         ELSE LET rest == json_loads_str(Tail(Tail(t))) IN
              IF Raised(rest) THEN rest ELSE Ok(<<t[2]>> \o rest.ok)
    ELSE LET rest == json_loads_str(Tail(t)) IN
         IF Raised(rest) THEN rest ELSE Ok(<<Head(t)>> \o rest.ok)

\* generate_request(method, id, params) as the text it returns, member by
\* member: the method goes between quotes as it is ("{}".format), a string
\* id and the params go through json.dumps, an integer id through format
generate_request_text(method, id, params) ==
    IF ~check_id(id, TRUE)
    THEN Raise(RPCError(RPCInvalidRequest, Str("id must be an integer or string")))
    ELSE LET r0 == [jsonrpc |-> <<"2", ".", "0">>, method |-> method]
             r1 == IF id # None
                   THEN Put(r0, "id", IF "str" \in DOMAIN id
                                      THEN [quoted |-> json_dumps_str(id.str)]
                                      ELSE [digits |-> id.int])
                   ELSE r0
             r2 == IF params # None THEN Put(r1, "params", [dumps |-> params]) ELSE r1
         IN  Ok(r2)

\* json.loads of such a text: every string literal is decoded; the text of an
\* integer and the text json.dumps wrote for params decode to the value they
\* were written from
json_loads_text(text) ==
    LET method == json_loads_str(text.method)
        id == IF "id" \in DOMAIN text /\ "quoted" \in DOMAIN text.id
              THEN json_loads_str(text.id.quoted)
              ELSE Ok(<<>>)
    IN  IF Raised(method) THEN method
        ELSE IF Raised(id) THEN id
        ELSE LET o0 == [jsonrpc |-> "2.0", method |-> method.ok]
                 o1 == IF "id" \in DOMAIN text
                       THEN Put(o0, "id", IF "quoted" \in DOMAIN text.id
                                          THEN [str |-> id.ok]
                                          ELSE [int |-> text.id.digits])
                       ELSE o0
                 o2 == IF "params" \in DOMAIN text
                       THEN Put(o1, "params", text.params.dumps)
                       ELSE o1
             IN  Ok(o2)

\* the branch EYWA._handle takes for a decoded object
classify(obj) ==
    IF "method" \in DOMAIN obj THEN "request"
    ELSE IF "error" \notin DOMAIN obj THEN "response"
    ELSE "error"

\* obj[key] of a dict: the member, or KeyError
Subscript(obj, key) ==
    IF key \in DOMAIN obj THEN Ok(obj[key]) ELSE Raise(OtherError("KeyError", key))

\* the arguments of generate_request: ids that are integers or strings,
\* params that are null, an empty array, a string, a nested object
RequestIds == {[int |-> 0], [int |-> -7]} \cup {[str |-> s] : s \in Strings}
RequestParams ==
    {None, Lit("[]"), Str("x"),
     [query |-> Str("{q}"), variables |-> [ids |-> Lit("[1,[2,null]]"), after |-> None]]}

\* generate_request(method, id, params), then EYWA._handle on the line: the
\* branch it takes and what _handle_request reads from the decoded object
call_roundtrip ==
    /\ client = "functions"
    /\ p_op = "none"
    /\ "method" \in DOMAIN p_in
    /\ p_op' = "roundtrip"
    /\ LET line == generate_request_text(p_in.method, p_in.id, p_in.params)
           obj == json_loads_text(line.ok)
       IN  p_out' = IF Raised(line) THEN [generated |-> FALSE]
                    ELSE IF Raised(obj) THEN [generated |-> TRUE, decoded |-> FALSE]
                    ELSE [generated |-> TRUE, decoded |-> TRUE,
                          branch |-> classify(obj.ok),
                          method |-> Subscript(obj.ok, "method"),
                          id |-> Subscript(obj.ok, "id"),
                          params |-> Subscript(obj.ok, "params")]
    /\ UNCHANGED <<client, p_in>>
    /\ UNCHANGED nonFunctions

\* the arguments of the call this run makes
FunctionInputs ==
    {[code |-> code] : code \in ErrorCodes}
    \cup {[method |-> method, id |-> id, params |-> params] :
              method \in Strings, id \in RequestIds, params \in RequestParams}

FunctionsInit ==
    /\ p_op = "none"
    /\ p_in \in IF client = "functions" THEN FunctionInputs ELSE {None}
    /\ p_out = None

FunctionsNext ==
    \/ call_get_error
    \/ call_roundtrip

(***************************************************************************)
(* The life of a process that uses the asyncio client (client = "task"):   *)
(* open_pipe, notifications, exit and close_task of src/py/src/eywa/eywa.py.*)
(* A process that uses src/py/eywa.py (client = "legacy") ends with         *)
(* Task.close.                                                             *)
(***************************************************************************)
Running == [running |-> TRUE]
TaskStatuses == {"SUCCESS", "ERROR", "PROCESSING", "EXCEPTION"}

\* open_pipe(): create a reader task and keep it in the global
task_open_pipe ==
    /\ client = "task"
    /\ exit_status = Running
    /\ Len(reader_tasks) < MaxPipes
    /\ reader_tasks' = Append(reader_tasks, "running")
    /\ __stdin__task__' = Len(reader_tasks) + 1
    /\ UNCHANGED <<client, avars, exit_status, closed, rpc_out, deleted,
                   invoked, scheduled, wrote>>
    /\ UNCHANGED nonProcess

\* update_task(status): send_notification is an ordinary function, its line
\* is written during the call
task_update(status) ==
    /\ client = "task"
    /\ exit_status = Running
    /\ invoked < MaxCalls
    /\ invoked' = invoked + 1
    /\ sys_stdout' = Append(sys_stdout,
                            Put([method |-> "task.update",
                                 params |-> [status |-> Str(status)]],
                                "jsonrpc", "2.0"))
    /\ wrote' = Append(wrote, invoked + 1)
    /\ UNCHANGED <<client, rpc_callbacks, handlers, sys_stdin, a_future, a_pc, a_op,
                   a_id, a_ret, a_reader, a_nin>>
    /\ UNCHANGED <<reader_tasks, __stdin__task__, exit_status, closed, rpc_out,
                   deleted, scheduled>>
    /\ UNCHANGED nonProcess

\* the body of send_request up to "await future", for invocation n
send_request_body(n, data) ==
    LET id_ == IdNames[n] IN
    /\ rpc_callbacks' = Put(rpc_callbacks, id_, n)
    /\ sys_stdout' = Append(sys_stdout, Put(Put(data, "jsonrpc", "2.0"), "id", id_))
    /\ wrote' = Append(wrote, n)

\* "await get_task()": send_request is a coroutine function; awaited at once,
\* its body runs up to "await future" before anything else does
task_await_request ==
    /\ client = "task"
    /\ exit_status = Running
    /\ invoked < MaxCalls
    /\ invoked' = invoked + 1
    /\ send_request_body(invoked + 1, [method |-> "task.get"])
    /\ UNCHANGED <<client, handlers, sys_stdin, a_future, a_pc, a_op, a_id, a_ret,
                   a_reader, a_nin>>
    /\ UNCHANGED <<reader_tasks, __stdin__task__, exit_status, closed, rpc_out,
                   deleted, scheduled>>
    /\ UNCHANGED nonProcess

\* "asyncio.create_task(get_task())" or "asyncio.gather(get_task(), ...)":
\* send_request is invoked, its body runs when the event loop starts the task
task_create_request ==
    /\ client = "task"
    /\ exit_status = Running
    /\ invoked < MaxCalls
    /\ invoked' = invoked + 1
    /\ scheduled' = Append(scheduled, invoked + 1)
    /\ UNCHANGED <<client, avars, reader_tasks, __stdin__task__, exit_status, closed,
                   rpc_out, deleted, wrote>>
    /\ UNCHANGED nonProcess

\* the running coroutine yields and the event loop starts the oldest task:
\* the body of its send_request runs up to "await future"
task_start_scheduled ==
    /\ client = "task"
    /\ exit_status = Running
    /\ scheduled # <<>>
    /\ scheduled' = Tail(scheduled)
    /\ send_request_body(Head(scheduled), [method |-> "task.get"])
    /\ UNCHANGED <<client, handlers, sys_stdin, a_future, a_pc, a_op, a_id, a_ret,
                   a_reader, a_nin>>
    /\ UNCHANGED <<reader_tasks, __stdin__task__, exit_status, closed, rpc_out,
                   deleted, invoked>>
    /\ UNCHANGED nonProcess

\* exit(status): cancel the task the global holds, then sys.exit(status)
exit(status) ==
    /\ reader_tasks' = IF __stdin__task__ # 0
                       THEN [reader_tasks EXCEPT ![__stdin__task__] = "cancelled"]
                       ELSE reader_tasks
    /\ exit_status' = Num(status)
    /\ UNCHANGED __stdin__task__

\* the program calls exit(status)
call_exit(status) ==
    /\ client = "task"
    /\ exit_status = Running
    /\ exit(status)
    /\ closed' = [by |-> "exit"]
    /\ UNCHANGED <<client, avars, rpc_out, deleted, invoked, scheduled, wrote>>
    /\ UNCHANGED nonProcess

\* a variant of the exit status close_task chooses: 1 only for "ERROR"
close_task_status_error_only(status) == IF status = "ERROR" THEN 1 ELSE 0

\* the exit status close_task chooses
close_task_status(status) == IF status = "SUCCESS" THEN 0 ELSE 1

\* close_task(status): send the task.close notification, then exit
close_task(status) ==
    /\ client = "task"
    /\ exit_status = Running
    /\ sys_stdout' = Append(sys_stdout,
                            Put([method |-> "task.close",
                                 params |-> [status |-> Str(status)]],
                                "jsonrpc", "2.0"))
    /\ invoked' = invoked + 1
    /\ wrote' = Append(wrote, invoked + 1)
    /\ exit(close_task_status(status))
    /\ closed' = [by |-> "close_task", status |-> status]
    /\ UNCHANGED <<client, rpc_callbacks, handlers, sys_stdin, a_future, a_pc, a_op,
                   a_id, a_ret, a_reader, a_nin, rpc_out, deleted, scheduled>>
    /\ UNCHANGED nonProcess

\* the exit status Task.close chooses
Task_close_status(status) == IF status = "ERROR" THEN 1 ELSE 0

\* Task.close(status) of src/py/eywa.py: rpc.call("task.close", ...) with no
\* callback, then sys.exit
Task_close(status) ==
    /\ client = "legacy"
    /\ exit_status = Running
    /\ rpc_out' = Append(rpc_out, [jsonrpc |-> "2.0", method |-> "task.close",
                                   params |-> [status |-> Str(status)]])
    /\ exit_status' = Num(Task_close_status(status))
    /\ closed' = [by |-> "Task.close", status |-> status]
    /\ UNCHANGED <<client, avars, reader_tasks, __stdin__task__, deleted,
                   invoked, scheduled, wrote>>
    /\ UNCHANGED nonProcess

\* Task.update_task(status) of src/py/eywa.py
Task_update_task(status) ==
    /\ client = "legacy"
    /\ exit_status = Running
    /\ Len(rpc_out) < MaxCalls
    /\ rpc_out' = Append(rpc_out, [jsonrpc |-> "2.0", method |-> "task.update",
                                   params |-> [status |-> Str(status)]])
    /\ UNCHANGED <<client, avars, reader_tasks, __stdin__task__, exit_status, closed,
                   deleted, invoked, scheduled, wrote>>
    /\ UNCHANGED nonProcess

ProcessInit ==
    /\ reader_tasks = <<>>
    /\ __stdin__task__ = 0
    /\ exit_status = Running
    /\ closed = [by |-> "none"]
    /\ rpc_out = <<>>
    /\ deleted = FALSE
    /\ invoked = 0
    /\ scheduled = <<>>
    /\ wrote = <<>>

ProcessNext ==
    \/ task_open_pipe
    \/ \E status \in TaskStatuses : task_update(status)
    \/ task_await_request
    \/ task_create_request
    \/ task_start_scheduled
    \/ \E status \in {0, 1} : call_exit(status)
    \/ \E status \in TaskStatuses : close_task(status)
    \/ \E status \in TaskStatuses : Task_close(status)
    \/ \E status \in TaskStatuses : Task_update_task(status)

(***************************************************************************)
(* EYWA.stdout as a stream of bytes (client = "write").  Two threads call  *)
(* EYWA._write: a caller thread inside EYWA.send and the reader thread     *)
(* inside EYWA._handle_request.  EYWA.stdout is an io.BufferedWriter: each *)
(* of its methods runs under the lock of the object.                       *)
(***************************************************************************)
WriteThreads == {"send", "handle"}
Newline == "\n"

\* the texts the two threads write: a request (generate_request) by the
\* caller, a response (generate_response) by the reader, character by
\* character
Message(thread) ==
    IF thread = "send" THEN <<"{", "m", "}">> ELSE <<"{", "r", "}">>

\* bytearray(s + "\n", "utf-8")
bytearray(s) == s \o <<Newline>>

\* a variant of BufferedWriter.write that takes no lock: the first byte goes
\* in front of what another thread has put into the buffer
BufferedWriter_write_unlocked(buffer, b) == <<Head(b)>> \o buffer \o Tail(b)

\* BufferedWriter.write(b): the bytes of b are appended to the buffer in one
\* piece
BufferedWriter_write(buffer, b) == buffer \o b

\* EYWA._write(s), first statement: self.stdout.write(bytearray(s + "\n"))
write_call(thread) ==
    /\ client = "write"
    /\ w_pc[thread] = "idle"
    /\ w_n[thread] < MaxCalls
    /\ w_buffer' = BufferedWriter_write(w_buffer, bytearray(Message(thread)))
    /\ w_pc' = [w_pc EXCEPT ![thread] = "flush"]
    /\ UNCHANGED <<client, w_n, w_fd>>
    /\ UNCHANGED nonWrite

\* EYWA._write(s), second statement: self.stdout.flush()
flush_call(thread) ==
    /\ client = "write"
    /\ w_pc[thread] = "flush"
    /\ w_fd' = w_fd \o w_buffer
    /\ w_buffer' = <<>>
    /\ w_pc' = [w_pc EXCEPT ![thread] = "idle"]
    /\ w_n' = [w_n EXCEPT ![thread] = @ + 1]
    /\ UNCHANGED client
    /\ UNCHANGED nonWrite

WriteInit ==
    /\ w_pc = [th \in WriteThreads |-> "idle"]
    /\ w_n = [th \in WriteThreads |-> 0]
    /\ w_buffer = <<>>
    /\ w_fd = <<>>

WriteNext ==
    \/ \E thread \in WriteThreads : write_call(thread)
    \/ \E thread \in WriteThreads : flush_call(thread)

\* the lines of a byte stream: the pieces that end with a newline, and
\* whether bytes without a newline are left at the end
RECURSIVE SplitLines(_, _)
SplitLines(bytes, line) ==
    IF bytes = <<>> THEN [lines |-> <<>>, rest |-> line]
    ELSE IF Head(bytes) = Newline
    THEN LET more == SplitLines(Tail(bytes), <<>>) IN
         [lines |-> <<line>> \o more.lines, rest |-> more.rest]
    ELSE SplitLines(Tail(bytes), Append(line, Head(bytes)))

(***************************************************************************)
(* One call of _http_put_stream (client = "stream"): the input stream is   *)
(* read chunk by chunk, then the PUT is issued.                            *)
(***************************************************************************)
\* the chunks a stream yields: some bytes, or none
Chunks == {<<>>, <<"x">>, <<"y", "z">>}
Streams == UNION {[1 .. n -> Chunks] : n \in 0 .. MaxChunks}
\* the content_length argument: what the caller believes the stream holds
DeclaredLengths == {0, 1, 3}
NoRequest == [issued |-> FALSE]

\* b''.join(chunks)
RECURSIVE join(_)
join(chunks) == IF chunks = <<>> THEN <<>> ELSE Head(chunks) \o join(Tail(chunks))

\* a variant of the headers of the PUT that trusts the content_length
\* argument
put_headers_declared(data, content_type, content_length) ==
    [ContentType |-> content_type, ContentLength |-> content_length]

\* the headers of the PUT: Content-Type and Content-Length: str(len(data))
put_headers(data, content_type, content_length) ==
    [ContentType |-> content_type, ContentLength |-> Len(data)]

\* the arguments of the call this run makes
StreamArgs ==
    {[url |-> "https://s3/put", input_stream |-> stream,
      content_length |-> content_length,
      content_type |-> "application/octet-stream"] :
         stream \in Streams, content_length \in DeclaredLengths}

\* _http_put_stream(url, input_stream, content_length, content_type) is called
put_stream_call ==
    /\ client = "stream"
    /\ s_pc = "start"
    /\ s_stream' = s_args.input_stream
    /\ s_pc' = "reading"
    /\ UNCHANGED <<client, s_args, s_chunks, s_bytes_read, s_put, s_ret>>
    /\ UNCHANGED nonStream

\* one turn of "async for chunk in input_stream": append the chunk, count it
put_stream_chunk ==
    /\ client = "stream"
    /\ s_pc = "reading"
    /\ s_stream # <<>>
    /\ s_chunks' = Append(s_chunks, Head(s_stream))
    /\ s_bytes_read' = s_bytes_read + Len(Head(s_stream))
    /\ s_stream' = Tail(s_stream)
    /\ UNCHANGED <<client, s_pc, s_args, s_put, s_ret>>
    /\ UNCHANGED nonStream

\* the stream raises instead of yielding: "except Exception" returns the
\* error result, no request is made
put_stream_raises ==
    /\ client = "stream"
    /\ s_pc = "reading"
    /\ s_stream # <<>>
    /\ s_ret' = [status |-> "error", code |-> 0, message |-> "read failed"]
    /\ s_pc' = "done"
    /\ UNCHANGED <<client, s_args, s_stream, s_chunks, s_bytes_read, s_put>>
    /\ UNCHANGED nonStream

\* the stream is exhausted: join the chunks and issue the PUT
put_stream_put ==
    /\ client = "stream"
    /\ s_pc = "reading"
    /\ s_stream = <<>>
    /\ LET data == join(s_chunks) IN
       s_put' = [issued |-> TRUE, url |-> s_args.url, data |-> data,
                 headers |-> put_headers(data, s_args.content_type,
                                         s_args.content_length)]
    /\ s_pc' = "sent"
    /\ UNCHANGED <<client, s_args, s_stream, s_chunks, s_bytes_read, s_ret>>
    /\ UNCHANGED nonStream

\* the answer to the PUT (status 0: the request raised)
put_stream_response(status) ==
    /\ client = "stream"
    /\ s_pc = "sent"
    /\ s_ret' = IF status = 200 THEN [status |-> "success", code |-> 200]
                ELSE [status |-> "error", code |-> status, message |-> "text"]
    /\ s_pc' = "done"
    /\ UNCHANGED <<client, s_args, s_stream, s_chunks, s_bytes_read, s_put>>
    /\ UNCHANGED nonStream

StreamInit ==
    /\ s_pc = "start"
    /\ s_args \in IF client = "stream" THEN StreamArgs ELSE {None}
    /\ s_stream = <<>>
    /\ s_chunks = <<>>
    /\ s_bytes_read = 0
    /\ s_put = NoRequest
    /\ s_ret = None

StreamNext ==
    \/ put_stream_call
    \/ put_stream_chunk
    \/ put_stream_raises
    \/ put_stream_put
    \/ \E status \in {200, 403, 0} : put_stream_response(status)

Init ==
    /\ client \in {"async", "thread", "serve", "repeat", "line", "files",
                   "functions", "task", "legacy", "write", "stream"}
    /\ AsyncInit
    /\ ThreadInit
    /\ LineInit
    /\ FilesInit
    /\ FunctionsInit
    /\ ProcessInit
    /\ WriteInit
    /\ StreamInit

Next ==
    \/ AsyncNext
    \/ ThreadNext
    \/ LineNext
    \/ FilesNext
    \/ FunctionsNext
    \/ ProcessNext
    \/ WriteNext
    \/ StreamNext

Spec == Init /\ [][Next]_vars

\* The Line thread is an operating-system thread: once started it keeps
\* being scheduled.
FairSpec ==
    /\ Init /\ [][Next]_vars
    /\ WF_vars(Line_run) /\ WF_vars(Line_loop) /\ WF_vars(Line_wait)

(***************************************************************************)
(* Properties of the asyncio client                                        *)
(***************************************************************************)
\* C1: in the asyncio client, whatever the number of send_request calls
\* pending together and whatever the order of the peer's responses, the call
\* sent with id i is resolved only by an inbound message whose id is i, never
\* by a message that carries another call's id.
C1_resolved_by_own_id ==
    \A c \in Calls :
        a_future[c].state = "done" =>
            /\ "id" \in DOMAIN a_future[c].result
            /\ a_future[c].result.id = a_id[c]

\* two calls are pending together and the later one is answered first
C1_out_of_order ==
    \E c, d \in Calls :
        /\ c < d
        /\ a_op[c] = "graphql" /\ a_op[d] = "graphql"
        /\ a_pc[c] = "awaiting"
        /\ a_future[d].state = "done"
        /\ a_future[d].result.id = a_id[d]

\* C2: in the asyncio client, graphql(query, variables) writes exactly one
\* request, with method "eywa.datasets.graphql" and params {query,
\* variables}, and when the success response {id, result: v} for it arrives
\* the call returns exactly v, the result member, not the JSON-RPC envelope.
C2_graphql_returns_result ==
    \A c \in Calls :
        a_op[c] = "graphql" =>
            /\ Cardinality({k \in DOMAIN sys_stdout :
                               /\ "id" \in DOMAIN sys_stdout[k]
                               /\ sys_stdout[k].id = a_id[c]}) = 1
            /\ \A k \in DOMAIN sys_stdout :
                   ("id" \in DOMAIN sys_stdout[k] /\ sys_stdout[k].id = a_id[c]) =>
                       sys_stdout[k] =
                           [jsonrpc |-> "2.0", id |-> a_id[c],
                            method |-> "eywa.datasets.graphql",
                            params |-> [query |-> Str("{q}"), variables |-> None]]
            /\ (/\ a_pc[c] = "returned"
                /\ "result" \in DOMAIN a_future[c].result
                /\ "error" \notin DOMAIN a_future[c].result)
               => a_ret[c] = a_future[c].result.result

\* C3: in the asyncio client, every inbound message that has the id of a
\* pending send_request, has a result member and has no error member
\* resolves that pending call, for every JSON value of result (null, false,
\* 0, the empty string, empty arrays and objects included).
C3_every_result_resolves ==
    [][\A c \in Calls :
          (/\ read_stdin
           /\ json_ok(Head(sys_stdin))
           /\ IsObject(json_loads(Head(sys_stdin)))
           /\ LET data == json_loads(Head(sys_stdin)) IN
                  /\ "method" \notin DOMAIN data
                  /\ "id" \in DOMAIN data
                  /\ data.id = a_id[c]
                  /\ data.id \in DOMAIN rpc_callbacks
                  /\ a_future[c].state = "pending"
                  /\ "result" \in DOMAIN data
                  /\ "error" \notin DOMAIN data)
          => a_future'[c].state = "done"]_vars

\* C4: in the asyncio client (read_stdin) and in the thread-based client
\* (EYWA._handle under its reader), an inbound line that is not valid JSON is
\* dropped and the reader goes on: it is still there to read and handle the
\* well-formed line that comes next.
C4_bad_line_is_dropped ==
    [][/\ (read_stdin /\ ~json_ok(Head(sys_stdin))) => a_reader' = "running"
       /\ \A line \in ThreadInbound :
              (handle_line(line) /\ ~json_ok(line)) => h_pc' = "idle"]_vars

(***************************************************************************)
(* Properties of the thread-based client                                   *)
(***************************************************************************)
\* a request of thread t has been written and its answer is still awaited
WrittenPending(t) ==
    /\ ~is_notification(t_call[t])
    /\ \/ t_call[t].block > 0 /\ t_pc[t] = "poll"
       \/ t_call[t].callback /\ t_pc[t] = "done" /\ t_cb[t] = <<>>

\* C5: in the thread-based client, for every interleaving of EYWA.send calls
\* from different threads (with a callback or block > 0), no two requests
\* pending together were written with the same id.
C5_pending_ids_differ ==
    \A t, u \in Calls :
        (t # u /\ WrittenPending(t) /\ WrittenPending(u)) => t_id[t] # t_id[u]

\* C6: in the thread-based client, while the connection is open and stop()
\* has not been called, every complete line that becomes available on stdin
\* is eventually read by Line.run and passed to EYWA._handle.
C6_lines_reach_handle ==
    \A n \in 1 .. MaxInbound :
        [](( client = "line" /\ Len(stdin) >= n)
              => <>(t_nin >= n \/ _stop \/ stdin_closed))

\* C7: in the thread-based client, when _handle_error processes an error
\* response whose id belongs to a pending blocking send, then for every
\* integer code the value it hands to that send is an RPCError with the
\* response's numeric code, the title the registered classes give for that
\* code, and the response's data member when present; send raises it and
\* never returns a normal value.
C7_error_reaches_send ==
    [][\A line \in Inbound :
          (/\ client \in ThreadClients
           /\ json_ok(line)
           /\ "error" \in DOMAIN json_loads(line)
           /\ "method" \notin DOMAIN json_loads(line)
           /\ json_loads(line).id \in DOMAIN _results
           /\ handle_line(line))
          => LET err == json_loads(line).error IN
             /\ h_pc' = "store"
             /\ h_id' = json_loads(line).id
             /\ IsRPCError(h_val')
             /\ h_val'.code = Num(err.code)
             /\ h_val'.title = get_error(err.code).title
             /\ ("data" \in DOMAIN err => h_val'.data = err.data)]_vars

\* C8: in the asyncio client, when an error response {id, error} arrives for
\* a pending send_request, the awaiting call fails with a typed error; it
\* does not return normally with a value.
C8_error_response_fails_call ==
    \A c \in Calls :
        (a_future[c].state = "done" /\ "error" \in DOMAIN a_future[c].result)
            => a_pc[c] # "returned"

\* C9: sending a notification creates no pending-call state and does not
\* wait: send_notification (asyncio) leaves rpc_callbacks unchanged, and
\* EYWA.send with no callback and block <= 0 leaves _callbacks, _results and
\* the counter _i unchanged, writes a line without an id member and returns
\* without waiting for an inbound message.
C9_notification_keeps_state ==
    [][/\ \A c \in Calls :
              (a_pc[c] = "ready" /\ a_pc'[c] = "returned") =>
                  /\ rpc_callbacks' = rpc_callbacks
                  /\ a_future' = a_future
       /\ \A t \in Calls :
              (t_pc'[t] # t_pc[t] /\ is_notification(t_call'[t])) =>
                  /\ _i' = _i
                  /\ _callbacks' = _callbacks
                  /\ _results' = _results
                  /\ t_pc'[t] \in {"write", "done"}
                  /\ t_pc'[t] = "done" =>
                         /\ Len(stdout') = Len(stdout) + 1
                         /\ "id" \notin DOMAIN stdout'[Len(stdout')]
                         /\ t_out'[t] = Returned(None)]_vars

\* a notification has been sent and has returned while a blocking send is
\* still polling for its answer
C9_notification_sent ==
    \E t, u \in Calls :
        /\ t_pc[t] = "done"
        /\ t_call[t].method # ""
        /\ is_notification(t_call[t])
        /\ t_out[t] = Returned(None)
        /\ t_pc[u] = "poll"

\* C10: in the thread-based client, when _handle_request processes a request
\* with id i for a method that has no registered handler it writes exactly
\* one line, the error response with id i, code -32601, message "Method not
\* found" and the method name as data; when the message has no id, nothing is
\* written.
C10_method_not_found ==
    [][t_nin' # t_nin =>
       \A line \in Inbound :
          (/\ json_ok(line)
           /\ "method" \in DOMAIN json_loads(line)
           /\ json_loads(line).method \notin DOMAIN _handlers
           /\ handle_line(line))
          => LET req == json_loads(line) IN
             stdout' = IF "id" \in DOMAIN req
                       THEN Append(stdout,
                                   [jsonrpc |-> "2.0", id |-> req.id,
                                    error |-> [code |-> -32601,
                                               message |-> "Method not found",
                                               data |-> Str(req.method)]])
                       ELSE stdout]_vars

\* the reply to the request for "nope" with id 3 is on the output
C10_reply_written ==
    \E k \in DOMAIN stdout :
        stdout[k] = [jsonrpc |-> "2.0", id |-> 3,
                     error |-> [code |-> -32601, message |-> "Method not found",
                                data |-> Str("nope")]]

\* C11: in the thread-based client, for every inbound request, with or
\* without a params member, whose method has a registered handler that
\* returns a value v: if the request carried id i exactly one line is
\* written, the success response with id i and result v; if it carried no
\* id, nothing is written.
C11_handled_request_replies ==
    [][\A line \in ThreadInbound \cup ServeInbound :
          (/\ json_ok(line)
           /\ "method" \in DOMAIN json_loads(line)
           /\ json_loads(line).method \in DOMAIN _handlers
           /\ ~Raised(call_handler(_handlers[json_loads(line).method],
                                   Get(json_loads(line), "params")))
           /\ handle_line(line))
          => LET req == json_loads(line)
                 v == call_handler(_handlers[req.method], Get(req, "params")).ok
             IN  /\ h_pc' = "idle"
                 /\ stdout' = IF "id" \in DOMAIN req
                              THEN Append(stdout, [jsonrpc |-> "2.0", id |-> req.id,
                                                   result |-> v])
                              ELSE stdout]_vars

\* C12: in the thread-based client, for every exception a registered handler
\* raises while handling a request with id i (an RPCError subclass of rpc.py,
\* RPCServerError included, or any other exception), _handle_request writes
\* exactly one error response with id i, carrying the RPCError's own code and
\* data or code -32603 for other exceptions, and no exception reaches the
\* reader loop.
C12_handler_error_replies ==
    [][\A line \in ServeInbound :
          (/\ "id" \in DOMAIN json_loads(line)
           /\ "method" \in DOMAIN json_loads(line)
           /\ json_loads(line).method \in DOMAIN _handlers
           /\ "params" \in DOMAIN json_loads(line)
           /\ Raised(call_handler(_handlers[json_loads(line).method],
                                  json_loads(line).params))
           /\ handle_line(line))
          => LET req == json_loads(line)
                 e == call_handler(_handlers[req.method], req.params).raise
                 reply == stdout'[Len(stdout')]
             IN  /\ h_pc' = "idle"
                 /\ h_exc' = "none"
                 /\ Len(stdout') = Len(stdout) + 1
                 /\ reply.id = req.id
                 /\ "error" \in DOMAIN reply
                 /\ IF IsRPCError(e)
                    THEN Num(reply.error.code) = e.code /\ reply.error.data = e.data
                    ELSE reply.error.code = -32603]_vars

\* C13: in the asyncio client, for every inbound request that carries an id
\* exactly one response with that id is written to the output: a success
\* response when a handler is registered for the method, an error response
\* with code -32601 when none is.
C13_async_request_answered ==
    [][(/\ read_stdin
        /\ json_ok(Head(sys_stdin))
        /\ IsObject(json_loads(Head(sys_stdin)))
        /\ "method" \in DOMAIN json_loads(Head(sys_stdin))
        /\ "id" \in DOMAIN json_loads(Head(sys_stdin)))
       => LET data == json_loads(Head(sys_stdin))
              reply == sys_stdout'[Len(sys_stdout')]
          IN  /\ Len(sys_stdout') = Len(sys_stdout) + 1
              /\ "id" \in DOMAIN reply
              /\ reply.id = data.id
              /\ IF data.method \in handlers
                 THEN "result" \in DOMAIN reply
                 ELSE "error" \in DOMAIN reply /\ reply.error.code = -32601]_vars

\* C14: in the thread-based client, a decoded inbound object that matches no
\* message shape (no method, and either no id, or an id with neither result
\* nor error) is dropped: _handle raises no exception, writes nothing and
\* leaves _results and _callbacks unchanged.
C14_shapeless_is_dropped ==
    [][\A line \in ThreadInbound \cup ServeInbound :
          (/\ json_ok(line)
           /\ IsObject(json_loads(line))
           /\ "method" \notin DOMAIN json_loads(line)
           /\ \/ "id" \notin DOMAIN json_loads(line)
              \/ /\ "result" \notin DOMAIN json_loads(line)
                 /\ "error" \notin DOMAIN json_loads(line)
           /\ handle_line(line))
          => /\ h_pc' = "idle"
             /\ h_exc' = "none"
             /\ stdout' = stdout
             /\ _results' = _results
             /\ _callbacks' = _callbacks]_vars

\* C15: in the asyncio client, every line written to standard output, after
\* any sequence of outbound calls, notifications and inbound messages
\* (messages of invalid shape, requests for unregistered methods and
\* responses with unknown ids included), is a well-formed JSON-RPC 2.0
\* message.
C15_stdout_is_jsonrpc ==
    \A k \in DOMAIN sys_stdout :
        /\ "jsonrpc" \in DOMAIN sys_stdout[k]
        /\ sys_stdout[k].jsonrpc = "2.0"
        /\ \/ "method" \in DOMAIN sys_stdout[k]
           \/ "id" \in DOMAIN sys_stdout[k] /\ "result" \in DOMAIN sys_stdout[k]
           \/ "id" \in DOMAIN sys_stdout[k] /\ "error" \in DOMAIN sys_stdout[k]

\* C16: in the thread-based client, once Line.stop() has been called the
\* reader loop eventually exits, for every interleaving of the stop() call
\* with the start-up of the reader thread.
C16_stop_ends_reader ==
    [](( client = "line" /\ _stop) => <>(l_pc = "exited"))

\* C17: a call completes only in response to the peer: send_request (asyncio)
\* and EYWA.send with block > 0 return or raise only after the reader has
\* handled an inbound message carrying that call's id, and that handling
\* happens after the call's request line was written.
C17_completes_after_answer ==
    /\ \A c \in Calls :
           (a_op[c] = "graphql" /\ a_pc[c] = "returned") =>
               /\ a_future[c].state = "done"
               /\ a_future[c].result.id = a_id[c]
               /\ \E k \in DOMAIN sys_stdout :
                      "id" \in DOMAIN sys_stdout[k] /\ sys_stdout[k].id = a_id[c]
    /\ \A t \in Calls :
           (t_call[t].block > 0 /\ t_out[t] # NoOutcome) => t_ack[t]

(***************************************************************************)
(* Properties of the file transfers                                        *)
(***************************************************************************)
\* C18: in upload, upload_stream and upload_content the three steps run in a
\* fixed order: the HTTP PUT is issued only after requestUploadURL returned a
\* non-empty URL and targets that URL; confirmFileUpload is issued only after
\* the PUT answered with HTTP 200 and is given that same URL; the function
\* returns normally only after confirmFileUpload returned a truthy value.
C18_upload_steps_in_order ==
    (client = "files" /\ IsUpload(f_op)) =>
        /\ \A k \in DOMAIN f_log :
               f_log[k].step = "PUT" =>
                   /\ k > 1
                   /\ f_log[k - 1].step = "requestUploadURL"
                   /\ "ok" \in DOMAIN f_res[k - 1]
                   /\ "data" \in DOMAIN f_res[k - 1].ok
                   /\ f_res[k - 1].ok.data.requestUploadURL = f_log[k].url
                   /\ f_log[k].url \notin {None, Str("")}
        /\ \A k \in DOMAIN f_log :
               f_log[k].step = "confirmFileUpload" =>
                   /\ k > 1
                   /\ f_log[k - 1].step = "PUT"
                   /\ f_res[k - 1].code = 200
                   /\ f_log[k].url = f_log[k - 1].url
        /\ f_out = Returned(None) =>
               /\ f_log # <<>>
               /\ Len(f_res) = Len(f_log)
               /\ f_log[Len(f_log)].step = "confirmFileUpload"
               /\ "ok" \in DOMAIN f_res[Len(f_res)]
               /\ Truthy(f_res[Len(f_res)].ok.data.confirmFileUpload)

\* an upload has gone through its three steps and returned
C18_upload_returned ==
    /\ f_op = "upload"
    /\ f_out = Returned(None)
    /\ Len(f_log) = 3
    /\ f_log[2].url = Str("u2")

\* C19: when the confirm step of an upload returns false, the call raises
\* FileUploadError with the message "Upload confirmation returned false",
\* and within that call each of the three steps (request URL, PUT, confirm)
\* has been performed at most once.
C19_confirm_false_raises ==
    (/\ client = "files"
     /\ IsUpload(f_op)
     /\ f_log # <<>>
     /\ Len(f_res) = Len(f_log)
     /\ f_log[Len(f_log)].step = "confirmFileUpload"
     /\ f_res[Len(f_res)] = Ok([data |-> [confirmFileUpload |-> Lit("false")]]))
    => /\ f_out = Raises([exc |-> "FileUploadError",
                          message |-> "Upload confirmation returned false",
                          code |-> None])
       /\ \A step \in {"requestUploadURL", "PUT", "confirmFileUpload"} :
              Cardinality({k \in DOMAIN f_log : f_log[k].step = step}) = 1

\* the confirmation of an upload_content call has answered false
C19_confirm_false ==
    /\ f_op = "upload_content"
    /\ Len(f_res) = 3
    /\ f_res[3] = Ok([data |-> [confirmFileUpload |-> Lit("false")]])
    /\ f_out.kind = "raise"

\* C20: every failure of upload, upload_stream or upload_content reaches the
\* caller as FileUploadError and every failure of download or
\* download_stream as FileDownloadError, whatever step fails (a failure of
\* the GraphQL call included); when the failing step is an HTTP PUT or GET
\* answered with a non-200 status, the error's code is that status.
C20_typed_failures ==
    (client = "files" /\ f_out.kind = "raise") =>
        /\ f_out.error.exc = IF IsUpload(f_op) THEN "FileUploadError"
                             ELSE "FileDownloadError"
        /\ (/\ Len(f_res) = 2
            /\ f_res[2].status = "error")
           => f_out.error.code = Num(f_res[2].code)

\* a download failed because the GET was answered 403
C20_http_failure ==
    /\ f_op = "download"
    /\ f_out.kind = "raise"
    /\ Len(f_res) = 2
    /\ f_res[2].code = 403

(***************************************************************************)
(* Further properties of the two clients                                   *)
(***************************************************************************)
\* a send of thread t that awaits an answer: blocking and not yet returned,
\* or with a callback that was not yet invoked
PendingCall(t) ==
    \/ t_call[t].block > 0 /\ t_pc[t] # "start" /\ t_out[t] = NoOutcome
    \/ t_call[t].callback /\ t_pc[t] # "start" /\ t_cb[t] = <<>>

\* C25: in the thread-based client, for every interleaving of the caller
\* thread and the reader thread, also when the peer sends several responses
\* or errors with the same id: each registered callback is invoked at most
\* once, each blocking send returns or raises at most once, a message whose
\* id matches no pending call changes neither _results nor _callbacks, and
\* after a blocking send has returned _results holds no entry for its id.
C25_each_call_completes_once ==
    [][client = "repeat" =>
          /\ \A t \in Calls :
                 /\ Len(t_cb'[t]) <= 1
                 /\ t_out[t] # NoOutcome => t_out'[t] = t_out[t]
                 /\ (t_call'[t].block > 0 /\ t_out'[t] # NoOutcome) =>
                        t_id'[t].int \notin DOMAIN _results'
          /\ (/\ \A t \in Calls : ~PendingCall(t)
              /\ t_nin' # t_nin \/ h_pc' # h_pc) =>
                 (_results' = _results /\ _callbacks' = _callbacks)]_vars

\* C26: in the asyncio client the lines on the output appear in the order in
\* which send_request and send_notification were invoked: for any two
\* invocations the line of the earlier one precedes the line of the later
\* one, also when several calls are awaited concurrently.
C26_lines_in_invocation_order ==
    client = "task" =>
        \A k, l \in DOMAIN wrote : k < l => wrote[k] < wrote[l]

\* C27: in the thread-based client, when the caller thread (EYWA.send) and
\* the reader thread (EYWA._handle_request) write concurrently, the output
\* stream is a sequence of complete messages: each message is one
\* uninterrupted line ended by a single newline, with no bytes of another
\* message inside it.
C27_output_is_whole_lines ==
    client = "write" =>
        LET out == SplitLines(w_fd \o w_buffer, <<>>) IN
        /\ out.rest = <<>>
        /\ \A k \in DOMAIN out.lines :
               \E thread \in WriteThreads : out.lines[k] = Message(thread)

\* both threads have written, the second before the first has flushed
C27_concurrent_writes ==
    /\ client = "write"
    /\ \A thread \in WriteThreads : w_pc[thread] = "flush"
    /\ w_fd # <<>>

\* C28: in _http_put_stream the HTTP PUT is issued only after the input
\* stream is exhausted, its body is the concatenation of all chunks in the
\* order they were yielded, and its Content-Length header equals the number
\* of bytes actually read from the stream.
C28_put_after_whole_stream ==
    (client = "stream" /\ s_put.issued) =>
        /\ s_stream = <<>>
        /\ s_chunks = s_args.input_stream
        /\ s_put.data = join(s_args.input_stream)
        /\ s_put.headers.ContentLength = s_bytes_read
        /\ s_put.headers.ContentLength = Len(s_put.data)

\* a PUT was issued for a stream of several chunks whose size is not the
\* declared content_length
C28_put_of_two_chunks ==
    /\ client = "stream"
    /\ s_put.issued
    /\ Len(s_args.input_stream) >= 2
    /\ s_bytes_read > 0
    /\ s_bytes_read # s_args.content_length

(***************************************************************************)
(* Properties of the module-level functions of rpc.py                      *)
(***************************************************************************)
\* C21: get_error(c) returns RPCParseError for -32700, RPCInvalidRequest for
\* -32600, RPCMethodNotFound (title "Method not found") for -32601,
\* RPCInvalidParams for -32602, RPCInternalError for -32603, RPCServerError
\* for every integer c with -32099 <= c <= -32000, and None for every other
\* integer.
C21_get_error_table ==
    p_op = "get_error" =>
        LET c == p_in.code IN
        /\ c = -32700 => p_out.name = "RPCParseError"
        /\ c = -32600 => p_out.name = "RPCInvalidRequest"
        /\ c = -32601 => p_out.name = "RPCMethodNotFound" /\ p_out.title = "Method not found"
        /\ c = -32602 => p_out.name = "RPCInvalidParams"
        /\ c = -32603 => p_out.name = "RPCInternalError"
        /\ (-32099 <= c /\ c <= -32000) => p_out.name = "RPCServerError"
        /\ (/\ c \notin {-32700, -32600, -32601, -32602, -32603}
            /\ ~(-32099 <= c /\ c <= -32000)) => p_out = NoClass

\* get_error was called with a bound of the server-error range
C21_range_bound ==
    /\ p_op = "get_error"
    /\ p_in.code \in {-32099, -32000}
    /\ p_out = RPCServerError

\* C22: for every valid request (method a string, id an integer or a string,
\* params any JSON-compatible value, null included) the line produced by
\* generate_request, decoded again and classified by EYWA._handle, is
\* classified as a request and yields the same method, id and params.
C22_request_round_trip ==
    p_op = "roundtrip" =>
        /\ p_out.generated
        /\ p_out.decoded
        /\ p_out.branch = "request"
        /\ p_out.method = Ok(p_in.method)
        /\ p_out.id = Ok(p_in.id)
        /\ p_out.params = Ok(p_in.params)

\* C24: in the asyncio client, at every moment the keys of rpc_callbacks are
\* exactly the ids of the send_request calls that have not yet returned: no
\* request line is on the output whose id is not registered while its call
\* is pending, and the entry is absent once the call has returned.
C24_callbacks_are_pending_calls ==
    client = "async" =>
        /\ DOMAIN rpc_callbacks =
               {a_id[c] : c \in {d \in Calls : a_pc[d] \in {"awaiting", "woken"}}}
        /\ \A k \in DOMAIN sys_stdout :
               "id" \in DOMAIN sys_stdout[k] =>
                   \E c \in Calls :
                       /\ a_id[c] = sys_stdout[k].id
                       /\ a_pc[c] # "ready"
                       /\ a_pc[c] = "returned" \/ a_id[c] \in DOMAIN rpc_callbacks

\* one call has returned and its entry is gone while another call is pending
C24_one_returned_one_pending ==
    \E c, d \in Calls :
        /\ a_pc[c] = "returned" /\ a_id[c] # NoId
        /\ a_pc[d] = "awaiting"
        /\ DOMAIN rpc_callbacks = {a_id[d]}

(***************************************************************************)
(* Properties of the life of the process                                   *)
(***************************************************************************)
\* C23: after the connection is torn down no reader loop started by the
\* client is still running: when exit() has run, every reader task created
\* by open_pipe() has been cancelled, however many times open_pipe() was
\* called, and when EYWA.__del__ has run the Line thread has been signalled
\* to stop.
C23_teardown_stops_readers ==
    [][/\ (exit_status = Running /\ exit_status' # Running /\ client = "task") =>
              \A k \in DOMAIN reader_tasks' : reader_tasks'[k] = "cancelled"
       /\ (~deleted /\ deleted') => _stop']_vars

\* the task.close notification for a status
task_close_line(status) ==
    [jsonrpc |-> "2.0", method |-> "task.close", params |-> [status |-> Str(status)]]

\* C29: close_task(status) in the asyncio client writes exactly one
\* task.close notification carrying that status before the process
\* terminates, writes nothing afterwards, and terminates with exit status 0
\* if status is "SUCCESS" and with exit status 1 for every other status.
C29_close_task_exits ==
    (client = "task" /\ closed.by = "close_task") =>
        /\ sys_stdout # <<>>
        /\ sys_stdout[Len(sys_stdout)] = task_close_line(closed.status)
        /\ Cardinality({k \in DOMAIN sys_stdout :
                            "method" \in DOMAIN sys_stdout[k]
                            /\ sys_stdout[k].method = "task.close"}) = 1
        /\ exit_status = Num(IF closed.status = "SUCCESS" THEN 0 ELSE 1)

\* close_task("ERROR") has ended a process that had written other lines
C29_closed_with_error ==
    /\ client = "task"
    /\ closed.by = "close_task"
    /\ closed.status = "ERROR"
    /\ Len(sys_stdout) >= 2
    /\ exit_status = Num(1)

\* C30: the two implementations of closing a task agree: for every status in
\* {SUCCESS, ERROR, PROCESSING, EXCEPTION}, Task.close(status) of
\* src/py/eywa.py and close_task(status) of src/py/src/eywa/eywa.py send a
\* task.close message with the same status and terminate the process with
\* the same exit status.
C30_close_implementations_agree ==
    /\ (client = "task" /\ closed.by = "close_task") =>
           /\ sys_stdout[Len(sys_stdout)] =
                  [jsonrpc |-> "2.0", method |-> "task.close",
                   params |-> [status |-> Str(closed.status)]]
           /\ exit_status = Num(Task_close_status(closed.status))
    /\ (client = "legacy" /\ closed.by = "Task.close") =>
           /\ rpc_out[Len(rpc_out)] =
                  [jsonrpc |-> "2.0", method |-> "task.close",
                   params |-> [status |-> Str(closed.status)]]
           /\ exit_status = Num(close_task_status(closed.status))

====
